---- MODULE Spec2Model ----
(***************************************************************************)
(* Forum_transcriber: the segmented transcription run                      *)
(* (src/src/transcription_processor.py, driven by src/src/main.py), the    *)
(* Whisper model cache (src/src/model_manager.py) and the turn             *)
(* consolidation of the reports (src/src/report_generator.py).             *)
(*                                                                         *)
(* Times of the transcription run are integers in milliseconds: the code   *)
(* computes total_duration = len(audio) / 1000 from pydub's millisecond    *)
(* length, so a duration is a whole number of milliseconds; start_time     *)
(* (range(...)) and segment_length stay whole seconds as in the code.      *)
(***************************************************************************)
EXTENDS Integers, Sequences, FiniteSets, TLC

\* ------------------------------------------------------------------ bounds
\* The audio lasts 0 .. MaxHalfSeconds half seconds.
MaxHalfSeconds == 6
\* segment_length is 1 .. MaxSegLen seconds.
MaxSegLen == 2
\* max_workers is 1 .. MaxWorkers.
MaxWorkers == 2
\* The engine returns at most MaxEngineSegs segments for one sub-range.
MaxEngineSegs == 1
\* MaxThreads threads call ModelManager.get_model concurrently.
MaxThreads == 2
\* Each of them makes at most MaxCalls calls.
MaxCalls == 2
\* A transcript handed to the report generator has at most MaxSegments segments.
MaxSegments == 3
\* The class has at most MaxWindows voice events when a speaker is looked up.
MaxWindows == 2
\* MaxJobs jobs (process_lecture calls) run concurrently.
MaxJobs == 2
\* clear_cache is called at most MaxClears times.
MaxClears == 1
\* _prepare_segments is given durations down to -MaxNegHalfSeconds half seconds.
MaxNegHalfSeconds == 2
\* The web handlers answer at most MaxRequests download or analysis requests.
MaxRequests == 2
\* One PerformanceMonitor is sent at most MaxMonitorCalls start / stop calls.
MaxMonitorCalls == 3
\* metrics_history is cut to its last MaxSamples measurements.
MaxSamples == 2
\* The plan of a job that shares the temp directory has MaxBuffers sub-ranges.
MaxBuffers == 2
\* The class has at most MaxEvents timeline events, the latest MaxOffsetSeconds
\* seconds after the recording began, and the report at most MaxRows rows.
MaxEvents == 2
MaxOffsetSeconds == 2
MaxRows == 2

\* ------------------------------------------------------- program constants
\* total_duration = len(audio) / 1000
MsPerSecond == 1000
\* start_time - current_entry['end_time'] > 2
MergeGapSeconds == 2
\* len(text) < 3
MinTextLen == 3

VARIABLES
    \* --- TranscriptionProcessor.transcribe and its caller process_lecture
    total_ms,        \* len(audio): the audio's length in milliseconds
    segment_length,  \* self.segment_length (seconds)
    max_workers,     \* self.max_workers
    parallel,        \* transcribe(..., parallel)
    pc,              \* where the run is
    segment_info,    \* _prepare_segments' list of sub-ranges
    temp_files,      \* the temp_segment_*.wav files on disk
    fut,             \* the executor's futures: sub-range index -> status
    collected,       \* the futures as_completed has handed to the main thread
    raw,             \* sub-range index -> what model.transcribe returned / raised
    ret,             \* sub-range index -> what _transcribe_segment returned
    all_segments,    \* all_segments of _transcribe_parallel / _sequential
    transcript_file, \* session_<class_id>_transcript.json
    ret_value,       \* what transcribe returned: "path", "None", or "raised"
    outputs,         \* process_lecture's result
    \* --- ModelManager (one instance per process)
    mm_model_locks,  \* self._model_locks: size -> lock object (0: no entry)
    mm_lock_holder,  \* the lock objects created so far -> holding thread (0: free)
    mm_models,       \* self._models: the sizes that have a cached model
    mm_loads,        \* size -> how many times whisper.load_model ran for it
    mm_thr,          \* thread -> where it is in get_model
    \* --- compile_transcript_to_pdf / compile_transcript_to_csv
    voice_events,    \* events_data['voice_events']
    privacy_mode,    \* "names" or "ids"
    speaker_map,     \* _build_speaker_window_map(events_data, privacy_mode)
    segments,        \* transcript_data['segments'], as far as the loop has read
    at_pc,           \* where the report generator is
    current_entry,   \* the turn in progress
    compiled_entries,\* the turns flushed so far
    all_items,       \* the rows of the report's transcript section
    \* --- find_speaker_at_time on its own
    lookup_time,     \* the time_point given to find_speaker_at_time
    found_speaker,   \* what it returned
    \* --- concurrent process_lecture jobs and the temp directory they share
    jobs,            \* job -> its class id, where it is, what its reports read
    session_files,   \* class id -> session_<class_id>_transcript.json
    \* --- ModelManager.clear_cache
    mm_clear,        \* where the thread that calls clear_cache is
    \* --- a second run of transcribe on the same audio
    first_run,        \* what the first run was given by the engine and wrote
    \* --- the web application's job registry
    web_app,  \* which application serves: app.py or demo_app.py
    processing_status,  \* processing_status: job id -> its status and outputs
    bg_pc,  \* job id -> where its background thread is
    request,  \* the download or save-and-analyze request being handled
    \* --- ModelManager() construction
    sg_instance,  \* ModelManager._instance: none or created
    sg_initialized,  \* the instance's _initialized: unset (no attribute), false, true
    sg_class_lock,  \* ModelManager._lock: the thread holding it (0: free)
    sg_models,  \* the instance's _models: the sizes with a loaded engine
    sg_init,  \* how often __init__ ran its body, and whether it dropped an engine
    sg_thr,  \* thread -> where it is in ModelManager()
    \* --- PerformanceMonitor
    mon_monitoring,  \* self.monitoring
    mon_lock,  \* self.lock: free, or held by the caller across join
    mon_caller,  \* the thread calling start_monitoring / stop_monitoring
    mon_threads,  \* the sampling threads started so far, in order
    mon_samples,  \* len(self.metrics_history)
    \* --- the temp working buffers of concurrent jobs
    buf_files,  \* the temp_segment_*.wav files on disk: path -> the job whose export wrote it
    buf_jobs,  \* job -> its class id and where each of its sub-ranges is
    \* --- the class-event windows of the transcript section
    tl_offsets,  \* the offset_seconds of events_data['timeline_segments'], in order
    tl_items,  \* the start_time of each row of all_items, in order
    tl_windows,  \* seg_windows
    tl_rows,  \* the rows placed under a window: which window, which item
    tl_pc  \* where the layout of the transcript section is

runVars == <<total_ms, segment_length, max_workers, parallel, pc, segment_info,
             temp_files, fut, collected, raw, ret, all_segments,
             transcript_file, ret_value, outputs>>

mmVars == <<mm_model_locks, mm_lock_holder, mm_models, mm_loads, mm_thr>>

attrVars == <<voice_events, privacy_mode, speaker_map, segments, at_pc, current_entry,
              compiled_entries, all_items>>

lookupVars == <<lookup_time, found_speaker>>

jobVars == <<jobs, session_files>>

clearVars == <<mm_clear>>

twiceVars == <<first_run>>

regVars == <<web_app, processing_status, bg_pc, request>>

singletonVars == <<sg_instance, sg_initialized, sg_class_lock, sg_models, sg_init, sg_thr>>

monitorVars == <<mon_monitoring, mon_lock, mon_caller, mon_threads, mon_samples>>

bufferVars == <<buf_files, buf_jobs>>

windowVars == <<tl_offsets, tl_items, tl_windows, tl_rows, tl_pc>>

vars == <<runVars, mmVars, attrVars, lookupVars, jobVars, clearVars, twiceVars, regVars, singletonVars, monitorVars, bufferVars, windowVars>>

\* what the steps of one component leave alone
notRunVars == <<mmVars, attrVars, lookupVars, jobVars, clearVars, twiceVars, regVars, singletonVars, monitorVars, bufferVars, windowVars>>
notMmVars == <<runVars, attrVars, lookupVars, jobVars, clearVars, twiceVars, regVars, singletonVars, monitorVars, bufferVars, windowVars>>
notAttrVars == <<runVars, mmVars, lookupVars, jobVars, clearVars, twiceVars, regVars, singletonVars, monitorVars, bufferVars, windowVars>>
notLookupVars == <<runVars, mmVars, segments, current_entry, compiled_entries,
                   all_items, jobVars, clearVars, twiceVars, regVars, singletonVars, monitorVars, bufferVars, windowVars>>
notJobVars == <<runVars, mmVars, attrVars, lookupVars, clearVars, twiceVars, regVars, singletonVars, monitorVars, bufferVars, windowVars>>
notRegVars == <<runVars, mmVars, attrVars, lookupVars, jobVars, clearVars, twiceVars,
                singletonVars, monitorVars, bufferVars, windowVars>>
notSingletonVars == <<runVars, mmVars, attrVars, lookupVars, jobVars, clearVars,
                      twiceVars, regVars, monitorVars, bufferVars, windowVars>>
notMonitorVars == <<runVars, mmVars, attrVars, lookupVars, jobVars, clearVars,
                    twiceVars, regVars, singletonVars, bufferVars, windowVars>>
notBufferVars == <<runVars, mmVars, attrVars, lookupVars, jobVars, clearVars,
                   twiceVars, regVars, singletonVars, monitorVars, windowVars>>
notWindowVars == <<runVars, mmVars, attrVars, lookupVars, jobVars, clearVars,
                   twiceVars, regVars, singletonVars, monitorVars, bufferVars>>

\* ----------------------------------------------------------------- helpers
Min(a, b) == IF a <= b THEN a ELSE b

\* str.strip() on a text held as a sequence of characters
IsSpace(c) == c = " "

RECURSIVE LStrip(_)
LStrip(s) == IF s # <<>> /\ IsSpace(Head(s)) THEN LStrip(Tail(s)) ELSE s

RECURSIVE RStrip(_)
RStrip(s) ==
    IF s # <<>> /\ IsSpace(s[Len(s)]) THEN RStrip(SubSeq(s, 1, Len(s) - 1)) ELSE s

Strip(s) == RStrip(LStrip(s))

\* the class id of the job
ClassId == "c1"

\* get_temp_path(f"temp_segment_{class_id}_{i}_{start_time}.wav")
TempPath(cid, i, start_time) == <<"temp_segment", cid, i, start_time>>

\* no transcript file on disk / a transcript file holding `segs`
NoFile == [exists |-> FALSE, segments |-> <<>>]
FileOf(segs) == [exists |-> TRUE, segments |-> segs]

\* model.transcribe was not called yet for a sub-range
NoCall == [called |-> FALSE, ok |-> FALSE, segments |-> <<>>]

\* ---------------------------------------------------- _prepare_segments
\* int(total_duration): truncation of len(audio) / 1000, toward zero
IntSeconds(ms) ==
    IF ms >= 0 THEN ms \div MsPerSecond ELSE -((-ms) \div MsPerSecond)

\* len(range(0, stop, step)) for step > 0
RangeLen(stop, step) == IF stop <= 0 THEN 0 ELSE (stop + step - 1) \div step

\* segment_times = range(0, int(total_duration), self.segment_length)
SegmentTimes(ms, seglen) ==
    [i \in 1..RangeLen(IntSeconds(ms), seglen) |-> (i - 1) * seglen]

SegmentEntryUncapped(i, start_time, ms, seglen) ==
    [index      |-> i,
     start_time |-> start_time,
     duration   |-> ms - start_time * MsPerSecond,
     temp_path  |-> TempPath(ClassId, i, start_time)]

\* One iteration of the loop: the entry appended for enumerate index i
\* (0-based) and start_time; duration is kept in milliseconds.
SegmentEntry(i, start_time, ms, seglen) ==
    [index      |-> i,
     start_time |-> start_time,
     duration   |-> Min(seglen * MsPerSecond, ms - start_time * MsPerSecond),
     temp_path  |-> TempPath(ClassId, i, start_time)]

\* ---------------------------------------------------- _transcribe_segment
\* The text the engine reports, with the leading blank Whisper emits.
RawText == <<" ", "h", "i">>

\* What model.transcribe may return for a buffer of `duration` ms: segments
\* with local times at the buffer's two ends, each with one word.
RawSegs(duration) ==
    {[start |-> p[1], end |-> p[2], text |-> RawText,
      words |-> <<[word |-> RawText, start |-> p[1], end |-> p[2]]>>] :
        p \in {q \in {0, duration} \X {0, duration} : q[1] <= q[2]}}

SeqsUpTo(S, n) == UNION {[1..m -> S] : m \in 0..n}

\* model.transcribe returns a result, or raises (ok = FALSE)
EngineOutcomes(duration) ==
    {[called |-> TRUE, ok |-> FALSE, segments |-> <<>>]} \cup
    {[called |-> TRUE, ok |-> TRUE, segments |-> r] : r \in SeqsUpTo(RawSegs(duration), MaxEngineSegs)}

\* lines 188-209: the rewrite of the engine's segments to global time
ProcessWordEndLocal(w, start_time) ==
    [word  |-> Strip(w.word),
     start |-> w.start + start_time * MsPerSecond,
     end   |-> w.end]

ProcessWord(w, start_time) ==
    [word  |-> Strip(w.word),
     start |-> w.start + start_time * MsPerSecond,
     end   |-> w.end + start_time * MsPerSecond]

ProcessSegmentLocalStart(seg, start_time) ==
    [start |-> seg.start,
     end   |-> seg.end + start_time * MsPerSecond,
     text  |-> Strip(seg.text),
     words |-> [j \in 1..Len(seg.words) |-> ProcessWord(seg.words[j], start_time)]]

ProcessSegment(seg, start_time) ==
    [start |-> seg.start + start_time * MsPerSecond,
     end   |-> seg.end + start_time * MsPerSecond,
     text  |-> Strip(seg.text),
     words |-> [j \in 1..Len(seg.words) |-> ProcessWord(seg.words[j], start_time)]]

ProcessSegments(result, start_time) ==
    [j \in 1..Len(result) |-> ProcessSegment(result[j], start_time)]

\* ---------------------------------------------------------- transcribe
\* sorted(all_segments, key=lambda x: x["start"]): Python's sort is stable
RECURSIVE InsertByStart(_, _)
InsertByStart(s, x) ==
    IF s = <<>> THEN <<x>>
    ELSE IF s[Len(s)].start <= x.start THEN Append(s, x)
    ELSE Append(InsertByStart(SubSeq(s, 1, Len(s) - 1), x), s[Len(s)])

RECURSIVE SortByStart(_)
SortByStart(s) ==
    IF s = <<>> THEN <<>>
    ELSE InsertByStart(SortByStart(SubSeq(s, 1, Len(s) - 1)), s[Len(s)])

PersistUnsorted(segs) == segs

\* the "segments" value json.dump writes
PersistedSegments(segs) == SortByStart(segs)

NumPlanned == RangeLen(IntSeconds(total_ms), segment_length)

\* ---------------------------------------------------- report_generator
\* Display names are held as their blank-separated words.
Professor == <<"Professor">>

\* current_entry = {'speaker': None, 'start_time': None, 'text': [], 'end_time': None}
NoSpeaker == <<>>
NoTime == -1
NoEntry == [speaker |-> NoSpeaker, start_time |-> NoTime, text |-> <<>>,
            end_time |-> NoTime]

\* the report generator before it is called
IdleAttr ==
    /\ voice_events = <<>>
    /\ privacy_mode = "names"
    /\ speaker_map = <<>>
    /\ segments = <<>>
    /\ at_pc = "idle"
    /\ current_entry = NoEntry
    /\ compiled_entries = <<>>
    /\ all_items = <<>>

\* no speaker was looked up
IdleLookup ==
    /\ lookup_time = NoTime
    /\ found_speaker = NoSpeaker

\* the class ids of the jobs, and a job's transcript: the segments of its
\* own audio, told apart by the job that produced them
ClassIds == {"c1", "c2"}
JobIds == 1..MaxJobs
NoJob == 0

\* no job runs, the temp directory holds no transcript
IdleJobs ==
    /\ jobs = <<>>
    /\ session_files = [c \in ClassIds |-> NoJob]

\* no thread is in clear_cache
ClearIdle == [pc |-> "idle", calls |-> 0]

IdleClear == mm_clear = ClearIdle

\* transcribe has not run before
NoFirstRun == [done |-> FALSE, raw |-> <<>>, file |-> NoFile, ret_value |-> "running"]

IdleTwice == first_run = NoFirstRun

\* the web application has no job in its registry
IdleRegistry ==
    /\ web_app = "none"
    /\ processing_status = <<>>
    /\ bg_pc = <<>>
    /\ request = [pc |-> "none", job |-> NoJob, route |-> "none",
                  response |-> 0, served |-> 0]

\* no ModelManager has been asked for
IdleSingleton ==
    /\ sg_instance = "none"
    /\ sg_initialized = "unset"
    /\ sg_class_lock = 0
    /\ sg_models = {}
    /\ sg_init = [runs |-> 0, lost_engine |-> FALSE]
    /\ sg_thr = <<>>

\* no PerformanceMonitor is in use
IdleMonitor ==
    /\ mon_monitoring = FALSE
    /\ mon_lock = "none"
    /\ mon_caller = [pc |-> "none", calls |-> 0]
    /\ mon_threads = <<>>
    /\ mon_samples = 0

\* no job has a temp working buffer
IdleBuffers ==
    /\ buf_files = <<>>
    /\ buf_jobs = <<>>

\* no transcript section is being laid out
IdleWindows ==
    /\ tl_offsets = <<>>
    /\ tl_items = <<>>
    /\ tl_windows = <<>>
    /\ tl_rows = <<>>
    /\ tl_pc = "idle"

\* -------------------------------------------------------- ModelManager
ModelSizes == {"medium", "small"}
Threads == 1..MaxThreads

ThreadIdle == [pc |-> "idle", size |-> "medium", lock |-> 0, calls |-> 0]

\* ModelManager.__init__, lines 25-28: empty cache, empty lock table
InitMmVars ==
    /\ mm_model_locks = [s \in ModelSizes |-> 0]
    /\ mm_lock_holder = <<>>
    /\ mm_models = {}
    /\ mm_loads = [s \in ModelSizes |-> 0]
    /\ mm_thr = [t \in Threads |-> ThreadIdle]

\* the ModelManager while no thread uses it
IdleMm == InitMmVars

InitRunVars ==
    /\ total_ms \in {h * (MsPerSecond \div 2) : h \in 0..MaxHalfSeconds}
    /\ segment_length \in 1..MaxSegLen
    /\ max_workers \in 1..MaxWorkers
    /\ parallel \in BOOLEAN
    /\ pc = "prepare"
    /\ segment_info = <<>>
    /\ temp_files = {}
    /\ fut = <<>>
    /\ collected = {}
    /\ raw = <<>>
    /\ ret = <<>>
    /\ all_segments = <<>>
    /\ transcript_file = NoFile
    /\ ret_value = "running"
    /\ outputs = [state |-> "running", built_from |-> <<>>]

InitRun ==
    /\ InitRunVars
    /\ IdleMm
    /\ IdleAttr
    /\ IdleLookup
    /\ IdleJobs
    /\ IdleClear
    /\ IdleTwice
    /\ IdleRegistry
    /\ IdleSingleton
    /\ IdleMonitor
    /\ IdleBuffers
    /\ IdleWindows

\* _prepare_segments, one iteration: slice, export the temp file, append
PrepareSegment ==
    /\ pc = "prepare"
    /\ Len(segment_info) < NumPlanned
    /\ LET i == Len(segment_info)
           e == SegmentEntry(i, SegmentTimes(total_ms, segment_length)[i + 1],
                             total_ms, segment_length)
       IN /\ segment_info' = Append(segment_info, e)
          /\ temp_files' = temp_files \cup {e.temp_path}
    /\ UNCHANGED <<total_ms, segment_length, max_workers, parallel, pc, fut,
                   collected, raw, ret, all_segments, transcript_file,
                   ret_value, outputs>>
    /\ UNCHANGED notRunVars

\* segment.export raises (an I/O error): _prepare_segments has no handler,
\* transcribe's except prints and re-raises (lines 85-87)
PrepareRaises ==
    /\ pc = "prepare"
    /\ Len(segment_info) < NumPlanned
    /\ pc' = "caller_except"
    /\ ret_value' = "raised"
    /\ UNCHANGED <<total_ms, segment_length, max_workers, parallel, segment_info,
                   temp_files, fut, collected, raw, ret, all_segments,
                   transcript_file, outputs>>
    /\ UNCHANGED notRunVars

ChoosePathIgnoringWorkers ==
    /\ pc = "prepare"
    /\ Len(segment_info) = NumPlanned
    /\ raw' = [k \in 1..NumPlanned |-> NoCall]
    /\ ret' = [k \in 1..NumPlanned |-> <<>>]
    /\ IF parallel /\ Len(segment_info) > 1
       THEN /\ pc' = "parallel"
            /\ fut' = [k \in 1..NumPlanned |-> "queued"]
       ELSE /\ pc' = "sequential"
            /\ fut' = fut
    /\ UNCHANGED <<total_ms, segment_length, max_workers, parallel, segment_info,
                   temp_files, collected, all_segments, transcript_file,
                   ret_value, outputs>>
    /\ UNCHANGED notRunVars

\* line 60: the choice of the path; the parallel path submits every task
ChoosePath ==
    /\ pc = "prepare"
    /\ Len(segment_info) = NumPlanned
    /\ raw' = [k \in 1..NumPlanned |-> NoCall]
    /\ ret' = [k \in 1..NumPlanned |-> <<>>]
    /\ IF parallel /\ Len(segment_info) > 1 /\ max_workers > 1
       THEN /\ pc' = "parallel"
            /\ fut' = [k \in 1..NumPlanned |-> "queued"]
       ELSE /\ pc' = "sequential"
            /\ fut' = fut
    /\ UNCHANGED <<total_ms, segment_length, max_workers, parallel, segment_info,
                   temp_files, collected, all_segments, transcript_file,
                   ret_value, outputs>>
    /\ UNCHANGED notRunVars

\* _transcribe_sequential, one iteration of the for loop: the call, the
\* except that absorbs a failure, the finally that unlinks the temp file
SeqAbortOnFailure ==
    /\ pc = "sequential"
    /\ \E k \in 1..Len(segment_info) :
        /\ raw[k] = NoCall
        /\ \A j \in 1..(k - 1) : raw[j] # NoCall
        /\ \E o \in EngineOutcomes(segment_info[k].duration) :
            /\ raw' = [raw EXCEPT ![k] = o]
            /\ IF o.ok
               THEN /\ ret' = [ret EXCEPT ![k] =
                                 ProcessSegments(o.segments, segment_info[k].start_time)]
                    /\ all_segments' = all_segments \o ret'[k]
                    /\ UNCHANGED <<pc, ret_value>>
               ELSE /\ pc' = "caller_except"
                    /\ ret_value' = "raised"
                    /\ UNCHANGED <<ret, all_segments>>
            /\ temp_files' = temp_files \ {segment_info[k].temp_path}
    /\ UNCHANGED <<total_ms, segment_length, max_workers, parallel, segment_info,
                   fut, collected, transcript_file, outputs>>
    /\ UNCHANGED notRunVars

SeqTranscribeAnyOrder ==
    /\ pc = "sequential"
    /\ \E k \in 1..Len(segment_info) :
        /\ raw[k] = NoCall
        /\ \E o \in EngineOutcomes(segment_info[k].duration) :
            /\ raw' = [raw EXCEPT ![k] = o]
            /\ ret' = [ret EXCEPT ![k] =
                         IF o.ok
                         THEN ProcessSegments(o.segments, segment_info[k].start_time)
                         ELSE <<>>]
            /\ all_segments' = all_segments \o ret'[k]
            /\ temp_files' = temp_files \ {segment_info[k].temp_path}
    /\ UNCHANGED <<total_ms, segment_length, max_workers, parallel, pc,
                   segment_info, fut, collected, transcript_file, ret_value,
                   outputs>>
    /\ UNCHANGED notRunVars

SeqTranscribe ==
    /\ pc = "sequential"
    /\ \E k \in 1..Len(segment_info) :
        /\ raw[k] = NoCall
        /\ \A j \in 1..(k - 1) : raw[j] # NoCall
        /\ \E o \in EngineOutcomes(segment_info[k].duration) :
            /\ raw' = [raw EXCEPT ![k] = o]
            /\ ret' = [ret EXCEPT ![k] =
                         IF o.ok
                         THEN ProcessSegments(o.segments, segment_info[k].start_time)
                         ELSE <<>>]
            /\ all_segments' = all_segments \o ret'[k]
            /\ temp_files' = temp_files \ {segment_info[k].temp_path}
    /\ UNCHANGED <<total_ms, segment_length, max_workers, parallel, pc,
                   segment_info, fut, collected, transcript_file, ret_value,
                   outputs>>
    /\ UNCHANGED notRunVars

\* the for loop is exhausted: return all_segments
SeqReturn ==
    /\ pc = "sequential"
    /\ \A k \in 1..Len(segment_info) : raw[k] # NoCall
    /\ pc' = "merge"
    /\ UNCHANGED <<total_ms, segment_length, max_workers, parallel, segment_info,
                   temp_files, fut, collected, raw, ret, all_segments,
                   transcript_file, ret_value, outputs>>
    /\ UNCHANGED notRunVars

\* ThreadPoolExecutor: a free worker takes the oldest queued task
Running == {k \in 1..Len(fut) : fut[k] = "running"}

WorkerStartUnbounded(k) ==
    /\ pc = "parallel"
    /\ fut[k] = "queued"
    /\ \A j \in 1..(k - 1) : fut[j] # "queued"
    /\ fut' = [fut EXCEPT ![k] = "running"]
    /\ UNCHANGED <<total_ms, segment_length, max_workers, parallel, pc,
                   segment_info, temp_files, collected, raw, ret, all_segments,
                   transcript_file, ret_value, outputs>>
    /\ UNCHANGED notRunVars

WorkerStart(k) ==
    /\ pc = "parallel"
    /\ fut[k] = "queued"
    /\ \A j \in 1..(k - 1) : fut[j] # "queued"
    /\ Cardinality(Running) < max_workers
    /\ fut' = [fut EXCEPT ![k] = "running"]
    /\ UNCHANGED <<total_ms, segment_length, max_workers, parallel, pc,
                   segment_info, temp_files, collected, raw, ret, all_segments,
                   transcript_file, ret_value, outputs>>
    /\ UNCHANGED notRunVars

\* _transcribe_segment ends in a worker: the future holds the returned
\* list or the exception
WorkerFinish(k) ==
    /\ pc = "parallel"
    /\ fut[k] = "running"
    /\ \E o \in EngineOutcomes(segment_info[k].duration) :
        /\ raw' = [raw EXCEPT ![k] = o]
        /\ ret' = [ret EXCEPT ![k] =
                     IF o.ok
                     THEN ProcessSegments(o.segments, segment_info[k].start_time)
                     ELSE <<>>]
        /\ fut' = [fut EXCEPT ![k] = IF o.ok THEN "done" ELSE "failed"]
    /\ UNCHANGED <<total_ms, segment_length, max_workers, parallel, pc,
                   segment_info, temp_files, collected, all_segments,
                   transcript_file, ret_value, outputs>>
    /\ UNCHANGED notRunVars

CollectReplacing(k) ==
    /\ pc = "parallel"
    /\ fut[k] \in {"done", "failed"}
    /\ k \notin collected
    /\ collected' = collected \cup {k}
    /\ all_segments' = IF fut[k] = "done" THEN ret[k] ELSE all_segments
    /\ temp_files' = temp_files \ {segment_info[k].temp_path}
    /\ UNCHANGED <<total_ms, segment_length, max_workers, parallel, pc,
                   segment_info, fut, raw, ret, transcript_file, ret_value,
                   outputs>>
    /\ UNCHANGED notRunVars

\* as_completed hands a finished future to the main thread (lines 124-137):
\* extend on a result, print on an exception, unlink in the finally
Collect(k) ==
    /\ pc = "parallel"
    /\ fut[k] \in {"done", "failed"}
    /\ k \notin collected
    /\ collected' = collected \cup {k}
    /\ all_segments' = IF fut[k] = "done" THEN all_segments \o ret[k]
                       ELSE all_segments
    /\ temp_files' = temp_files \ {segment_info[k].temp_path}
    /\ UNCHANGED <<total_ms, segment_length, max_workers, parallel, pc,
                   segment_info, fut, raw, ret, transcript_file, ret_value,
                   outputs>>
    /\ UNCHANGED notRunVars

\* as_completed is exhausted and the executor is shut down
ParallelReturn ==
    /\ pc = "parallel"
    /\ collected = 1..Len(segment_info)
    /\ pc' = "merge"
    /\ UNCHANGED <<total_ms, segment_length, max_workers, parallel, segment_info,
                   temp_files, fut, collected, raw, ret, all_segments,
                   transcript_file, ret_value, outputs>>
    /\ UNCHANGED notRunVars

\* lines 65-83: nothing transcribed -> warning and return None; otherwise
\* the transcript is written and its path returned
Finish ==
    /\ pc = "merge"
    /\ pc' = "report"
    /\ IF all_segments = <<>>
       THEN /\ ret_value' = "None"
            /\ transcript_file' = transcript_file
       ELSE /\ ret_value' = "path"
            /\ transcript_file' = FileOf(PersistedSegments(all_segments))
    /\ UNCHANGED <<total_ms, segment_length, max_workers, parallel, segment_info,
                   temp_files, fut, collected, raw, ret, all_segments, outputs>>
    /\ UNCHANGED notRunVars

\* process_lecture, lines 71-82: transcript_path is not looked at; the
\* reports are compiled from the transcript file of the class id, and a
\* missing file raises in open() (report_generator.py line 35)
ReportGeneration ==
    /\ pc = "report"
    /\ IF transcript_file = NoFile
       THEN /\ pc' = "caller_except"
            /\ outputs' = outputs
       ELSE /\ pc' = "finished"
            /\ outputs' = [state |-> "reports", built_from |-> transcript_file.segments]
    /\ UNCHANGED <<total_ms, segment_length, max_workers, parallel, segment_info,
                   temp_files, fut, collected, raw, ret, all_segments,
                   transcript_file, ret_value>>
    /\ UNCHANGED notRunVars

\* process_lecture, lines 128-138: any exception ends the job with []
CallerExcept ==
    /\ pc = "caller_except"
    /\ pc' = "finished"
    /\ outputs' = [state |-> "empty list", built_from |-> <<>>]
    /\ UNCHANGED <<total_ms, segment_length, max_workers, parallel, segment_info,
                   temp_files, fut, collected, raw, ret, all_segments,
                   transcript_file, ret_value>>
    /\ UNCHANGED notRunVars

NextRun ==
    \/ PrepareSegment
    \/ PrepareRaises
    \/ ChoosePath
    \/ SeqTranscribe
    \/ SeqReturn
    \/ \E k \in 1..Len(fut) : WorkerStart(k)
    \/ \E k \in 1..Len(fut) : WorkerFinish(k)
    \/ \E k \in 1..Len(fut) : Collect(k)
    \/ ParallelReturn
    \/ Finish
    \/ ReportGeneration
    \/ CallerExcept

SpecRun == InitRun /\ [][NextRun]_vars

\* ------------------------------------------- ModelManager.get_model
\* A thread (a job's thread in TranscriptionProcessor.__init__, or a pool
\* worker in _transcribe_segment) calls get_model(size), force_reload False.
GetModelCall(t, s) ==
    /\ mm_thr[t].pc = "idle"
    /\ mm_thr[t].calls < MaxCalls
    /\ mm_thr' = [mm_thr EXCEPT ![t] = [pc |-> "test_lock", size |-> s, lock |-> 0,
                                        calls |-> mm_thr[t].calls + 1]]
    /\ UNCHANGED <<mm_model_locks, mm_lock_holder, mm_models, mm_loads>>
    /\ UNCHANGED notMmVars

\* line 67: if model_size not in self._model_locks
TestLock(t) ==
    /\ mm_thr[t].pc = "test_lock"
    /\ mm_thr' = [mm_thr EXCEPT ![t].pc =
                    IF mm_model_locks[mm_thr[t].size] = 0 THEN "create_lock"
                    ELSE "lookup_lock"]
    /\ UNCHANGED <<mm_model_locks, mm_lock_holder, mm_models, mm_loads>>
    /\ UNCHANGED notMmVars

\* line 68: self._model_locks[model_size] = threading.Lock()
CreateLock(t) ==
    /\ mm_thr[t].pc = "create_lock"
    /\ mm_lock_holder' = Append(mm_lock_holder, 0)
    /\ mm_model_locks' = [mm_model_locks EXCEPT ![mm_thr[t].size] =
                            Len(mm_lock_holder) + 1]
    /\ mm_thr' = [mm_thr EXCEPT ![t].pc = "lookup_lock"]
    /\ UNCHANGED <<mm_models, mm_loads>>
    /\ UNCHANGED notMmVars

\* line 70: the lock object is read from the table ...
LookupLock(t) ==
    /\ mm_thr[t].pc = "lookup_lock"
    /\ mm_thr' = [mm_thr EXCEPT ![t].pc = "acquire",
                                ![t].lock = mm_model_locks[mm_thr[t].size]]
    /\ UNCHANGED <<mm_model_locks, mm_lock_holder, mm_models, mm_loads>>
    /\ UNCHANGED notMmVars

\* ... and acquired (with: __enter__), blocking while another thread holds it
AcquireLock(t) ==
    /\ mm_thr[t].pc = "acquire"
    /\ mm_lock_holder[mm_thr[t].lock] = 0
    /\ mm_lock_holder' = [mm_lock_holder EXCEPT ![mm_thr[t].lock] = t]
    /\ mm_thr' = [mm_thr EXCEPT ![t].pc = "test_cache"]
    /\ UNCHANGED <<mm_model_locks, mm_models, mm_loads>>
    /\ UNCHANGED notMmVars

\* line 71: if force_reload or model_size not in self._models
TestCache(t) ==
    /\ mm_thr[t].pc = "test_cache"
    /\ mm_thr' = [mm_thr EXCEPT ![t].pc =
                    IF mm_thr[t].size \notin mm_models THEN "loading" ELSE "return"]
    /\ UNCHANGED <<mm_model_locks, mm_lock_holder, mm_models, mm_loads>>
    /\ UNCHANGED notMmVars

\* lines 76-89: whisper.load_model(...) has run; the model is stored
StoreModel(t) ==
    /\ mm_thr[t].pc = "loading"
    /\ mm_models' = mm_models \cup {mm_thr[t].size}
    /\ mm_loads' = [mm_loads EXCEPT ![mm_thr[t].size] = @ + 1]
    /\ mm_thr' = [mm_thr EXCEPT ![t].pc = "return"]
    /\ UNCHANGED <<mm_model_locks, mm_lock_holder>>
    /\ UNCHANGED notMmVars

\* line 94: return self._models[model_size]; the with block releases the lock
ReturnModel(t) ==
    /\ mm_thr[t].pc = "return"
    /\ mm_lock_holder' = [mm_lock_holder EXCEPT ![mm_thr[t].lock] = 0]
    /\ mm_thr' = [mm_thr EXCEPT ![t].pc = "idle", ![t].lock = 0]
    /\ UNCHANGED <<mm_model_locks, mm_models, mm_loads>>
    /\ UNCHANGED notMmVars

\* the transcription run while the ModelManager is looked at on its own
IdleRun ==
    /\ total_ms = 0
    /\ segment_length = 1
    /\ max_workers = 1
    /\ parallel = FALSE
    /\ pc = "idle"
    /\ segment_info = <<>>
    /\ temp_files = {}
    /\ fut = <<>>
    /\ collected = {}
    /\ raw = <<>>
    /\ ret = <<>>
    /\ all_segments = <<>>
    /\ transcript_file = NoFile
    /\ ret_value = "running"
    /\ outputs = [state |-> "running", built_from |-> <<>>]

InitModel ==
    /\ InitMmVars
    /\ IdleRun
    /\ IdleAttr
    /\ IdleLookup
    /\ IdleJobs
    /\ IdleClear
    /\ IdleTwice
    /\ IdleRegistry
    /\ IdleSingleton
    /\ IdleMonitor
    /\ IdleBuffers
    /\ IdleWindows

NextModel ==
    \/ \E t \in Threads, s \in ModelSizes : GetModelCall(t, s)
    \/ \E t \in Threads : TestLock(t)
    \/ \E t \in Threads : CreateLock(t)
    \/ \E t \in Threads : LookupLock(t)
    \/ \E t \in Threads : AcquireLock(t)
    \/ \E t \in Threads : TestCache(t)
    \/ \E t \in Threads : StoreModel(t)
    \/ \E t \in Threads : ReturnModel(t)

SpecModel == InitModel /\ [][NextModel]_vars

\* the threads that are inside whisper.load_model for size s
Loading(s) == {t \in Threads : mm_thr[t].pc = "loading" /\ mm_thr[t].size = s}

\* C4: under any interleaving of get_model(size) calls without force_reload
\* the model of a size is loaded at most once, and no two loads of one size
\* overlap, also when the first calls for the size find no lock yet.
C4_LoadedOnce ==
    \A s \in ModelSizes :
        /\ mm_loads[s] + Cardinality(Loading(s)) <= 1
        /\ Cardinality(Loading(s)) <= 1

\* ------------------------------------------- properties of the run
\* transcribe has left its try block: it returned or it raised
TranscribeEnded == ret_value # "running"

\* _prepare_segments has returned its list
PlanReady == pc \in {"sequential", "parallel", "merge", "report"}

\* the sub-range's segments in global time, or nothing when its call failed
Contribution(k) ==
    IF raw[k].ok
    THEN [j \in 1..Len(raw[k].segments) |->
            [start |-> raw[k].segments[j].start
                         + segment_info[k].start_time * MsPerSecond,
             end   |-> raw[k].segments[j].end
                         + segment_info[k].start_time * MsPerSecond]]
    ELSE <<>>

Timing(seg) == [start |-> seg.start, end |-> seg.end]

Count(s, x) == Cardinality({i \in 1..Len(s) : Timing(s[i]) = x})

RECURSIVE CountUpTo(_, _)
CountUpTo(k, x) ==
    IF k = 0 THEN 0 ELSE CountUpTo(k - 1, x) + Count(Contribution(k), x)

AllTimings ==
    UNION {{Timing(ret[k][j]) : j \in 1..Len(ret[k])} : k \in 1..Len(ret)}
    \cup {Timing(all_segments[j]) : j \in 1..Len(all_segments)}
    \cup {Timing(transcript_file.segments[j]) :
            j \in 1..Len(transcript_file.segments)}

IsSortedByStart(s) ==
    \A i \in 1..(Len(s) - 1) : s[i].start <= s[i + 1].start

\* C1: whatever the engine returned for the sub-ranges and in whatever order
\* the workers completed (parallel) or the plan was walked (sequential), the
\* segments of the transcript file are in non-decreasing order of start.
C1_TranscriptSorted ==
    transcript_file.exists => IsSortedByStart(transcript_file.segments)

\* a transcript was written from a list that the completion order of the
\* workers had left out of order
C1_Witness ==
    /\ transcript_file.exists
    /\ collected # {}
    /\ ~IsSortedByStart(all_segments)

\* C2: every segment and every word that _transcribe_segment returns for a
\* sub-range carries the engine's local start and end plus the sub-range's
\* start offset, one returned record per engine record, in the same order.
C2_OffsetExact ==
    \A k \in 1..Len(raw) :
        (raw[k].called /\ raw[k].ok) =>
            LET off == segment_info[k].start_time * MsPerSecond
                in_ == raw[k].segments
                out == ret[k]
            IN /\ Len(out) = Len(in_)
               /\ \A j \in 1..Len(in_) :
                    /\ out[j].start = in_[j].start + off
                    /\ out[j].end = in_[j].end + off
                    /\ Len(out[j].words) = Len(in_[j].words)
                    /\ \A w \in 1..Len(in_[j].words) :
                         /\ out[j].words[w].start = in_[j].words[w].start + off
                         /\ out[j].words[w].end = in_[j].words[w].end + off

\* a sub-range that does not start at 0 returned a segment with a word
C2_Witness ==
    \E k \in 1..Len(raw) :
        /\ raw[k].ok
        /\ segment_info[k].start_time > 0
        /\ Len(ret[k]) > 0
        /\ Len(ret[k][1].words) > 0
        /\ ret[k][1].end > segment_info[k].start_time * MsPerSecond

\* C3: a sub-range whose engine call failed contributes no segment and does
\* not abort the run: once the path has returned, every sub-range was
\* transcribed, the merged list holds exactly the segments of the sub-ranges
\* that succeeded, and so does the transcript file that is written.
C3_FailureAbsorbed ==
    /\ Len(raw) > 0 => (ret_value # "raised")
    /\ (pc \in {"merge", "report"} \/ (TranscribeEnded /\ ret_value # "raised")) =>
        /\ \A k \in 1..Len(segment_info) :
             /\ raw[k].called
             /\ ~raw[k].ok => ret[k] = <<>>
        /\ \A x \in AllTimings :
             Count(all_segments, x) = CountUpTo(Len(segment_info), x)
        /\ transcript_file.exists =>
             \A x \in AllTimings :
                Count(transcript_file.segments, x) = CountUpTo(Len(segment_info), x)

\* a parallel run in which one sub-range failed and another one's segments
\* reached the transcript file
C3_Witness ==
    /\ transcript_file.exists
    /\ collected # {}
    /\ \E k \in 1..Len(raw) : raw[k].called /\ ~raw[k].ok
    /\ \E k \in 1..Len(raw) : raw[k].ok /\ Len(ret[k]) > 0

\* the sub-ranges tile [0, total): the first starts at 0, each next one
\* starts where the previous one ends, the last ends at total
RECURSIVE SumDurations(_)
SumDurations(s) ==
    IF s = <<>> THEN 0 ELSE s[Len(s)].duration + SumDurations(SubSeq(s, 1, Len(s) - 1))

Covers(plan, ms) ==
    /\ SumDurations(plan) = ms
    /\ plan # <<>> => plan[1].start_time = 0
    /\ \A i \in 1..(Len(plan) - 1) :
         plan[i + 1].start_time * MsPerSecond =
            plan[i].start_time * MsPerSecond + plan[i].duration
    /\ plan # <<>> =>
         plan[Len(plan)].start_time * MsPerSecond + plan[Len(plan)].duration = ms

\* C5: for every total duration >= 0, whole or fractional seconds, and every
\* segment length > 0 the planned sub-ranges cover [0, total) without gap or
\* overlap and their durations sum to the total.
C5_PlanCoversAudio == PlanReady => Covers(segment_info, total_ms)

\* ceil(total / L), both in milliseconds
CeilDiv(a, b) == (a + b - 1) \div b

\* C6: the plan has exactly ceil(total / L) entries, and none exactly when
\* the total duration is 0.
C6_PlanLength ==
    PlanReady =>
        /\ Len(segment_info) = CeilDiv(total_ms, segment_length * MsPerSecond)
        /\ (Len(segment_info) = 0) <=> (total_ms = 0)

\* C7: when the merged segment list of a run is empty, transcribe raises to
\* its caller; it does not return normally and the caller does not go on to
\* generate reports.
C7_EmptyTranscriptRaises ==
    /\ (pc = "report" /\ all_segments = <<>>) => ret_value = "raised"
    /\ outputs.state = "reports" => all_segments # <<>>

\* C8: when transcribe has returned or raised, every temp file that was
\* created has been deleted.
C8_TempFilesDeleted == TranscribeEnded => temp_files = {}

\* ------------------------------------------ _build_speaker_window_map
\* f"{fn} {ln}".strip() or "Professor", fn and ln being single words or ''
NameOf(sp) ==
    LET w == SelectSeq(<<sp.first_name, sp.last_name>>, LAMBDA x : x # "")
    IN IF w = <<>> THEN Professor ELSE w

\* lines 25-28: "ID <uid>" in ids mode when the speaker has an id
DisplayName(sp, mode) ==
    IF mode = "ids" /\ sp.id # "" THEN <<"ID", sp.id>> ELSE NameOf(sp)

\* speaker_map[(start, end)] = disp on a dict that keeps insertion order:
\* a key already present keeps its place and takes the new value
MapPut(m, key, disp) ==
    IF \E i \in 1..Len(m) : m[i].key = key
    THEN [i \in 1..Len(m) |->
            IF m[i].key = key THEN [key |-> key, disp |-> disp] ELSE m[i]]
    ELSE Append(m, [key |-> key, disp |-> disp])

RECURSIVE BuildSpeakerWindowMap(_, _)
BuildSpeakerWindowMap(events, mode) ==
    IF events = <<>> THEN <<>>
    ELSE LET ev == events[Len(events)]
         IN MapPut(BuildSpeakerWindowMap(SubSeq(events, 1, Len(events) - 1), mode),
                   <<ev.start, ev.end>>, DisplayName(ev.speaker, mode))

FindSpeakerOrFirst(m, time_point) ==
    LET hits == {i \in 1..Len(m) :
                    m[i].key[1] <= time_point /\ time_point <= m[i].key[2]}
    IN IF hits = {} THEN (IF m = <<>> THEN Professor ELSE m[1].disp)
       ELSE m[CHOOSE i \in hits : \A j \in hits : i <= j].disp

\* find_speaker_at_time: the first entry whose [start, end] holds the time
FindSpeakerAtTime(m, time_point) ==
    LET hits == {i \in 1..Len(m) :
                    m[i].key[1] <= time_point /\ time_point <= m[i].key[2]}
    IN IF hits = {} THEN Professor
       ELSE m[CHOOSE i \in hits : \A j \in hits : i <= j].disp

SpeakerAt(time_point) == FindSpeakerAtTime(speaker_map, time_point)

\* ------------------------------------------- normalize_sentence_spacing
LetterChars == {"h", "e", "y", "o", "k", "M", "m"}
SentenceEnd == {".", "!", "?"}
Punctuation == {",", ".", "!", "?", ";", ":"}

\* re.sub(r'([.!?])(?=[A-Za-z0-9"\'])', r'\1 ', text)
RECURSIVE SpaceAfterSentence(_)
SpaceAfterSentence(s) ==
    IF s = <<>> THEN <<>>
    ELSE IF Len(s) >= 2 /\ s[1] \in SentenceEnd /\ s[2] \in LetterChars
         THEN <<s[1], " ">> \o SpaceAfterSentence(Tail(s))
         ELSE <<s[1]>> \o SpaceAfterSentence(Tail(s))

\* re.sub(r'\s{2,}', ' ', text)
RECURSIVE CollapseSpaces(_)
CollapseSpaces(s) ==
    IF s = <<>> THEN <<>>
    ELSE IF Len(s) >= 2 /\ IsSpace(s[1]) /\ IsSpace(s[2])
         THEN <<" ">> \o CollapseSpaces(LStrip(s))
         ELSE <<s[1]>> \o CollapseSpaces(Tail(s))

\* re.sub(r'\s+([,.!?;:])', r'\1', text)
RECURSIVE TrimBeforePunctuation(_)
TrimBeforePunctuation(s) ==
    IF s = <<>> THEN <<>>
    ELSE IF IsSpace(s[1]) /\ LStrip(s) # <<>> /\ Head(LStrip(s)) \in Punctuation
         THEN TrimBeforePunctuation(LStrip(s))
         ELSE <<s[1]>> \o TrimBeforePunctuation(Tail(s))

NormalizeSentenceSpacing(text) ==
    IF text = <<>> THEN text
    ELSE Strip(TrimBeforePunctuation(CollapseSpaces(SpaceAfterSentence(text))))

\* ' '.join(entry['text'])
RECURSIVE JoinText(_)
JoinText(texts) ==
    IF texts = <<>> THEN <<>>
    ELSE IF Len(texts) = 1 THEN texts[1]
    ELSE texts[1] \o <<" ">> \o JoinText(Tail(texts))

\* text in ['...', '.', '', 'Mm-hmm.'] or len(text) < 3
FillerTexts == {<<".", ".", ".">>, <<".">>, <<>>,
                <<"M", "m", "-", "h", "m", "m", ".">>}

IsDegenerate(text) == text \in FillerTexts \/ Len(text) < MinTextLen

\* ------------------------------------------------ the consolidation loop
\* The segments and the voice windows of a report lie on whole seconds from
\* 0 to one past the merge gap: gaps below, at and above the gap occur.
LastAttrSecond == MergeGapSeconds + 1

AttrTimes == {s * MsPerSecond : s \in 0..LastAttrSecond}

\* the texts of the transcript's segments: a sentence, a two-letter word,
\* and the empty text
SegTexts == {<<"h", "e", "y">>, <<"o", "k">>, <<>>}

\* a segment as the report generator reads it from the transcript file
TranscriptSegs ==
    {[start |-> s, end |-> s + d, text |-> x] :
        s \in AttrTimes, d \in {0, MsPerSecond}, x \in SegTexts}

Alice == [first_name |-> "Alice", last_name |-> "Ng", id |-> "7"]

\* the voice events of the class: none, or one window in which Alice
\* speaks, after the first second and up to the merge gap
VoiceTimes == {s * MsPerSecond : s \in 1..MergeGapSeconds}

VoiceEventLists ==
    {<<>>} \cup
    {<<[start |-> w[1], end |-> w[2], speaker |-> Alice]>> :
        w \in {v \in VoiceTimes \X VoiceTimes : v[1] <= v[2]}}

InitAttrVars ==
    /\ voice_events \in VoiceEventLists
    /\ privacy_mode = "names"
    /\ speaker_map = BuildSpeakerWindowMap(voice_events, privacy_mode)
    /\ segments = <<>>
    /\ at_pc = "consolidate"
    /\ current_entry = NoEntry
    /\ compiled_entries = <<>>
    /\ all_items = <<>>

InitAttr ==
    /\ InitAttrVars
    /\ IdleRun
    /\ IdleMm
    /\ IdleLookup
    /\ IdleJobs
    /\ IdleClear
    /\ IdleTwice
    /\ IdleRegistry
    /\ IdleSingleton
    /\ IdleMonitor
    /\ IdleBuffers
    /\ IdleWindows

StartNewAtThreshold(entry, speaker, start_time) ==
    \/ entry.speaker = NoSpeaker
    \/ entry.speaker # speaker
    \/ (entry.end_time # NoTime
        /\ start_time - entry.end_time >= MergeGapSeconds * MsPerSecond)

\* lines 63-69 (pdf), 333 (csv): start_new
StartNew(entry, speaker, start_time) ==
    \/ entry.speaker = NoSpeaker
    \/ entry.speaker # speaker
    \/ (entry.end_time # NoTime
        /\ start_time - entry.end_time > MergeGapSeconds * MsPerSecond)

\* one iteration of the loop over transcript_data['segments'] (lines 56-82,
\* 327-340); the transcript file holds its segments in order of start
ConsolidateFrom(Segs) ==
    /\ at_pc = "consolidate"
    /\ Len(segments) < MaxSegments
    /\ \E seg \in Segs :
        /\ segments # <<>> => segments[Len(segments)].start <= seg.start
        /\ segments' = Append(segments, seg)
        /\ LET raw_text == Strip(seg.text)
               current_speaker == SpeakerAt(seg.start)
           IN IF raw_text = <<>>
              THEN UNCHANGED <<current_entry, compiled_entries>>
              ELSE IF StartNew(current_entry, current_speaker, seg.start)
              THEN /\ compiled_entries' =
                        IF current_entry.speaker # NoSpeaker
                        THEN Append(compiled_entries, current_entry)
                        ELSE compiled_entries
                   /\ current_entry' = [speaker    |-> current_speaker,
                                        start_time |-> seg.start,
                                        text       |-> <<raw_text>>,
                                        end_time   |-> seg.end]
              ELSE /\ current_entry' =
                        [current_entry EXCEPT !.text = Append(@, raw_text),
                                              !.end_time = seg.end]
                   /\ UNCHANGED compiled_entries
    /\ UNCHANGED <<voice_events, privacy_mode, speaker_map, at_pc, all_items>>
    /\ UNCHANGED notAttrVars

ConsolidateSegment == ConsolidateFrom(TranscriptSegs)

\* lines 344-357 (206-233 for texts below max_chars_per_chunk): the rows of
\* the entries that pass the filter
RECURSIVE FlattenEntries(_)
FlattenEntries(entries) ==
    IF entries = <<>> THEN <<>>
    ELSE LET entry == entries[Len(entries)]
             text == NormalizeSentenceSpacing(Strip(JoinText(entry.text)))
             before == FlattenEntries(SubSeq(entries, 1, Len(entries) - 1))
         IN IF IsDegenerate(text) THEN before
            ELSE Append(before, [start_time |-> entry.start_time,
                                 end_time   |-> entry.end_time,
                                 speaker    |-> entry.speaker,
                                 text       |-> text])

RowsLatestFirst(s) == [i \in 1..Len(s) |-> s[Len(s) + 1 - i]]

\* all_items.sort(key=lambda x: x['start_time']), a stable sort
RECURSIVE InsertByStartTime(_, _)
InsertByStartTime(s, x) ==
    IF s = <<>> THEN <<x>>
    ELSE IF s[Len(s)].start_time <= x.start_time THEN Append(s, x)
    ELSE Append(InsertByStartTime(SubSeq(s, 1, Len(s) - 1), x), s[Len(s)])

RECURSIVE SortByStartTime(_)
SortByStartTime(s) ==
    IF s = <<>> THEN <<>>
    ELSE InsertByStartTime(SortByStartTime(SubSeq(s, 1, Len(s) - 1)), s[Len(s)])

\* the loop ends (a transcript file is never written without a segment):
\* lines 83-84, 341-342 flush the turn in progress, then the entries are
\* flattened, filtered and sorted
FlushAndFlatten ==
    /\ at_pc = "consolidate"
    /\ segments # <<>>
    /\ compiled_entries' = IF current_entry.speaker # NoSpeaker
                           THEN Append(compiled_entries, current_entry)
                           ELSE compiled_entries
    /\ all_items' = SortByStartTime(FlattenEntries(compiled_entries'))
    /\ at_pc' = "done"
    /\ UNCHANGED <<voice_events, privacy_mode, speaker_map, segments,
                   current_entry>>
    /\ UNCHANGED notAttrVars

NextAttr ==
    \/ ConsolidateSegment
    \/ FlushAndFlatten

SpecAttr == InitAttr /\ [][NextAttr]_vars

\* the segment the loop has just read, and the turn it met
LastSeg == segments[Len(segments)]

\* C9: a segment with text starts a new turn exactly when no turn is in
\* progress, or its speaker differs from the turn's, or its start lies more
\* than 2 s after the turn's end; otherwise (same speaker, gap <= 2 s, a gap
\* of exactly 2 s included) its text is appended to the turn in progress and
\* the turn's end becomes the segment's end.
C9_NewTurnExactlyWhen ==
    [][(at_pc = "consolidate" /\ Len(segments') = Len(segments) + 1
            /\ Strip(segments'[Len(segments')].text) # <<>>) =>
        LET seg == segments'[Len(segments')]
            speaker == SpeakerAt(seg.start)
            newTurn == \/ current_entry = NoEntry
                       \/ current_entry.speaker # speaker
                       \/ seg.start - current_entry.end_time
                            > MergeGapSeconds * MsPerSecond
        IN IF newTurn
           THEN /\ current_entry'.speaker = speaker
                /\ current_entry'.start_time = seg.start
                /\ current_entry'.end_time = seg.end
                /\ current_entry'.text = <<Strip(seg.text)>>
                /\ compiled_entries' =
                     IF current_entry = NoEntry THEN compiled_entries
                     ELSE Append(compiled_entries, current_entry)
           ELSE /\ current_entry'.speaker = current_entry.speaker
                /\ current_entry'.start_time = current_entry.start_time
                /\ current_entry'.end_time = seg.end
                /\ current_entry'.text = Append(current_entry.text, Strip(seg.text))
                /\ compiled_entries' = compiled_entries]_vars

\* a segment that starts exactly 2 s after the end of the same speaker's
\* previous segment was appended to the turn in progress
C9_Witness ==
    /\ at_pc = "consolidate"
    /\ Len(segments) >= 2
    /\ LastSeg.start - segments[Len(segments) - 1].end = MergeGapSeconds * MsPerSecond
    /\ Len(current_entry.text) = 2
    /\ current_entry.end_time = LastSeg.end
    /\ current_entry.start_time = segments[Len(segments) - 1].start

\* C10: in the rows surfaced after consolidation and filtering no two
\* consecutive turns have the same speaker and a gap of at most 2 s between
\* the end of the first and the start of the second.
C10_NoMergeableNeighbours ==
    at_pc = "done" =>
        \A i \in 1..(Len(all_items) - 1) :
            ~(/\ all_items[i].speaker = all_items[i + 1].speaker
              /\ all_items[i + 1].start_time - all_items[i].end_time
                    <= MergeGapSeconds * MsPerSecond)

\* the texts a turn was put together from
TurnTexts(entry) == {entry.text[j] : j \in 1..Len(entry.text)}

\* C11: a degenerate segment (empty text, a filler token, a text of fewer
\* than 3 characters) is dropped before consolidation: its text is in no
\* turn, neither in the turn in progress nor in a flushed one, so it starts
\* no turn, extends none and reaches no output row.
C11_DegenerateDropped ==
    /\ \A x \in TurnTexts(current_entry) : ~IsDegenerate(x)
    /\ \A i \in 1..Len(compiled_entries) :
         \A x \in TurnTexts(compiled_entries[i]) : ~IsDegenerate(x)

\* ------------------------------------- find_speaker_at_time on its own
\* The speakers of the class: one with a name and an id, one whose actor
\* record has no id (actor.get('id') is None), one with an id and no name.
Bob == [first_name |-> "Bob", last_name |-> "", id |-> ""]
Anon == [first_name |-> "", last_name |-> "", id |-> "9"]
Speakers == {Alice, Bob, Anon}

\* the voice events of the class, in the order the fetcher lists them:
\* windows may overlap, may have the same bounds, and may be malformed
\* (end < start: the fetcher subtracts the timestamps it is given)
LookupWindows ==
    {[start |-> w[1], end |-> w[2], speaker |-> sp] :
        w \in VoiceTimes \X VoiceTimes, sp \in Speakers}

LookupEventLists == SeqsUpTo(LookupWindows, MaxWindows)

InitLookup ==
    /\ voice_events \in LookupEventLists
    /\ privacy_mode \in {"names", "ids"}
    /\ speaker_map = <<>>
    /\ segments = <<>>
    /\ at_pc = "map"
    /\ current_entry = NoEntry
    /\ compiled_entries = <<>>
    /\ all_items = <<>>
    /\ IdleLookup
    /\ IdleRun
    /\ IdleMm
    /\ IdleJobs
    /\ IdleClear
    /\ IdleTwice
    /\ IdleRegistry
    /\ IdleSingleton
    /\ IdleMonitor
    /\ IdleBuffers
    /\ IdleWindows

\* line 45: speaker_map = _build_speaker_window_map(events_data, privacy_mode)
BuildMap ==
    /\ at_pc = "map"
    /\ speaker_map' = BuildSpeakerWindowMap(voice_events, privacy_mode)
    /\ at_pc' = "lookup"
    /\ UNCHANGED <<voice_events, privacy_mode, lookupVars>>
    /\ UNCHANGED notLookupVars

\* line 61: current_speaker = find_speaker_at_time(start_time)
FindSpeaker ==
    /\ at_pc = "lookup"
    /\ \E t \in AttrTimes :
        /\ lookup_time' = t
        /\ found_speaker' = FindSpeakerAtTime(speaker_map, t)
    /\ at_pc' = "found"
    /\ UNCHANGED <<voice_events, privacy_mode, speaker_map>>
    /\ UNCHANGED notLookupVars

NextLookup ==
    \/ BuildMap
    \/ FindSpeaker

SpecLookup == InitLookup /\ [][NextLookup]_vars

\* the voice events, in the supplied order, whose [start, end] holds t
Containing(events, t) ==
    {i \in 1..Len(events) : events[i].start <= t /\ t <= events[i].end}

FirstContaining(events, t) ==
    CHOOSE i \in Containing(events, t) : \A j \in Containing(events, t) : i <= j

\* C12: the speaker found for a time is the one of the first voice event, in
\* the supplied order, whose closed interval [start, end] holds the time,
\* for every list of events: overlapping ones and ones with the same bounds
\* and different speakers included.
C12_FirstWindowInOrder ==
    (at_pc = "found" /\ Containing(voice_events, lookup_time) # {}) =>
        found_speaker =
            DisplayName(voice_events[FirstContaining(voice_events, lookup_time)].speaker,
                        privacy_mode)

\* C13: in ids mode a speaker found in a voice window is shown as
\* "ID <identifier>", never by name, whatever the speaker record holds.
C13_IdsModeShowsIds ==
    (at_pc = "found" /\ privacy_mode = "ids"
        /\ Containing(voice_events, lookup_time) # {}) =>
            /\ Len(found_speaker) = 2
            /\ found_speaker[1] = "ID"

\* C14: when no voice window holds the time (none at all included), the
\* speaker found is "Professor", in names mode and in ids mode.
C14_FallbackProfessor ==
    (at_pc = "found" /\ Containing(voice_events, lookup_time) = {}) =>
        found_speaker = Professor

\* in ids mode a time outside every window of a class that has windows was
\* looked up
C14_Witness ==
    /\ at_pc = "found"
    /\ privacy_mode = "ids"
    /\ voice_events # <<>>
    /\ Containing(voice_events, lookup_time) = {}
    /\ found_speaker = Professor

\* the turns, in their order, begin at segments met in the same order: each
\* turn has the start and the first text of a segment that comes after the
\* segment the turn before it began at
RECURSIVE BeginInOrder(_, _)
BeginInOrder(turns, segs) ==
    IF turns = <<>> THEN TRUE
    ELSE IF segs = <<>> THEN FALSE
    ELSE IF /\ Head(turns).start_time = Head(segs).start
            /\ Head(turns).first_text = Strip(Head(segs).text)
         THEN BeginInOrder(Tail(turns), Tail(segs))
         ELSE BeginInOrder(turns, Tail(segs))

TurnBeginnings(entries) ==
    [i \in 1..Len(entries) |->
        [start_time |-> entries[i].start_time, first_text |-> entries[i].text[1]]]

\* C15: the output rows are in non-decreasing order of start time and in the
\* order of the transcript segments they were built from: the final sort
\* moves no row, and the turns begin at segments in transcript order.
C15_OrderKept ==
    /\ BeginInOrder(TurnBeginnings(compiled_entries), segments)
    /\ at_pc = "done" =>
        /\ \A i \in 1..(Len(all_items) - 1) :
             all_items[i].start_time <= all_items[i + 1].start_time
        /\ all_items = FlattenEntries(compiled_entries)

\* three segments became two rows with different start times
C15_Witness ==
    /\ at_pc = "done"
    /\ Len(segments) = 3
    /\ Len(all_items) = 2
    /\ all_items[1].start_time < all_items[2].start_time

\* C17: at every moment of a run the temp files on disk are at most as many
\* as the sub-ranges in flight: max_workers in the parallel path, 1 in the
\* sequential path, whatever the number of sub-ranges of the plan.
C17_TempFilesBounded ==
    /\ pc = "parallel" => Cardinality(temp_files) <= max_workers
    /\ pc # "parallel" => Cardinality(temp_files) <= 1

\* C18: in the parallel path at most max_workers sub-ranges are inside the
\* recognition call at any moment, and every sub-range of the plan is
\* dispatched exactly once: a worker takes a sub-range only from the queue,
\* a sub-range taken never returns to the queue, and when the path returns
\* every sub-range has been through the call.
C18_PoolBounded ==
    /\ [](Cardinality(Running) <= max_workers)
    /\ []((pc = "merge" /\ fut # <<>>) =>
            \A k \in 1..Len(segment_info) : raw[k].called /\ fut[k] \in {"done", "failed"})
    /\ [][\A k \in 1..Len(fut) :
            /\ (fut[k] # "running" /\ fut'[k] = "running") => fut[k] = "queued"
            /\ fut[k] # "queued" => fut'[k] # "queued"
            /\ (raw[k] # raw'[k]) => (fut[k] = "running" /\ raw[k] = NoCall)]_vars

\* three sub-ranges went through a pool of two workers, two of them at once
C18_Witness ==
    /\ pc = "parallel"
    /\ max_workers = 2
    /\ Len(fut) = 3
    /\ Cardinality(Running) = 2
    /\ fut[1] = "done"

\* the worker pool was used for this run
UsedPool == fut # <<>>

\* C19: the worker pool is used exactly when parallel is true, the plan has
\* more than one sub-range and max_workers > 1; otherwise the sub-ranges are
\* transcribed one after the other in plan order, none by a pool worker.
C19_PathChoice ==
    PlanReady =>
        /\ UsedPool <=> (parallel /\ Len(segment_info) > 1 /\ max_workers > 1)
        /\ UsedPool => pc # "sequential"
        /\ ~UsedPool =>
            /\ pc # "parallel"
            /\ collected = {}
            /\ \A k \in 1..Len(raw) :
                 raw[k].called => \A j \in 1..(k - 1) : raw[j].called

\* a run asked to be parallel with a plan of several sub-ranges and one
\* worker went through the sequential loop
C19_Witness ==
    /\ pc = "sequential"
    /\ parallel
    /\ max_workers = 1
    /\ Len(segment_info) > 1
    /\ raw[1].called
    /\ ~raw[2].called

\* C20: a get_model call that finds its size cached when it starts goes
\* through without acquiring or waiting for a lock: the step of a thread
\* that is at the first statement of get_model with the model of its size
\* in the cache never takes it to the with statement of the size's lock
\* (nor to the creation of a lock).
C20_CachedNeedsNoLock ==
    [][\A t \in Threads :
        (mm_thr[t].pc = "test_lock" /\ mm_thr[t].size \in mm_models) =>
            mm_thr'[t].pc \notin {"create_lock", "lookup_lock", "acquire"}]_vars

\* --------------------------------- concurrent jobs (process_lecture)
\* A job runs process_lecture for a class id in its own thread or process;
\* the jobs share the temp directory, where the transcript of a class id is
\* session_<class_id>_transcript.json (get_temp_path). A file is told
\* apart by the job whose transcribe wrote it.
\* word_timestamps is the keyword the caller hands to transcribe: "unset"
\* for process_lecture (main.py line 71), "true" or "false" for
\* process_lecture_with_progress (app.py lines 161-170). engine_words is
\* what the engine was asked for, error the exception that ended the job.
WordOptions == {"unset", "true", "false"}

JobStart(c, w) == [class_id |-> c, pc |-> "start_monitoring", wrote |-> FALSE,
                   built_from |-> NoJob, word_timestamps |-> w,
                   engine_words |-> "none", error |-> "none"]

InitJobVars ==
    /\ jobs \in [JobIds -> {JobStart(c, w) : c \in ClassIds, w \in WordOptions}]
    /\ session_files = [c \in ClassIds |-> NoJob]

InitJobs ==
    /\ InitJobVars
    /\ IdleRun
    /\ IdleMm
    /\ IdleAttr
    /\ IdleLookup
    /\ IdleClear
    /\ IdleTwice
    /\ IdleRegistry
    /\ IdleSingleton
    /\ IdleMonitor
    /\ IdleBuffers
    /\ IdleWindows

\* main.py lines 57-63 (app.py line 159): monitor.start_monitoring is called
\* inside the job's try block; performance_monitor.py lines 42-56 guard
\* nothing (Thread.start can raise), so an exception leaves through the
\* job's except clause (main.py lines 128-138 return [], app.py lines
\* 194-196 re-raise)
JobStartMonitoring(j) ==
    /\ jobs[j].pc = "start_monitoring"
    /\ \E raises \in BOOLEAN :
        IF raises
        THEN jobs' = [jobs EXCEPT ![j].pc = "failed", ![j].error = "monitor"]
        ELSE jobs' = [jobs EXCEPT ![j].pc = "transcribe"]
    /\ UNCHANGED session_files
    /\ UNCHANGED notJobVars

\* transcription_processor.py line 40: transcribe(self, audio_path,
\* class_id, parallel=True) takes no word_timestamps keyword, so the call of
\* app.py line 170 raises TypeError before anything runs. Otherwise (main.py
\* line 71) every engine call passes word_timestamps=True (line 180);
\* transcribe returns None without writing when nothing was transcribed
\* (lines 65-77: no sub-range planned, or the engine heard nothing), and
\* else opens the class id's transcript path for writing and dumps its
\* segments
JobTranscribe(j) ==
    /\ jobs[j].pc = "transcribe"
    /\ IF jobs[j].word_timestamps # "unset"
       THEN /\ jobs' = [jobs EXCEPT ![j].pc = "failed", ![j].error = "TypeError"]
            /\ UNCHANGED session_files
       ELSE \E outcome \in {"nothing_planned", "nothing_heard", "segments"} :
            CASE outcome = "nothing_planned" ->
                    /\ jobs' = [jobs EXCEPT ![j].pc = "report"]
                    /\ UNCHANGED session_files
              [] outcome = "nothing_heard" ->
                    /\ jobs' = [jobs EXCEPT ![j].pc = "report",
                                            ![j].engine_words = "true"]
                    /\ UNCHANGED session_files
              [] outcome = "segments" ->
                    /\ jobs' = [jobs EXCEPT ![j].pc = "report", ![j].wrote = TRUE,
                                            ![j].engine_words = "true"]
                    /\ session_files' = [session_files EXCEPT ![jobs[j].class_id] = j]
    /\ UNCHANGED notJobVars

\* main.py lines 76-82: the reports are compiled from the file at the class
\* id's path; open() raises when there is none (report_generator.py lines
\* 35, 293-295) and process_lecture returns [] (lines 128-138). Building the
\* PDF can raise as well (doc.build, line 289; re-raised at 293-295): the job
\* then ends in the except clause, before the cleanup of lines 100-104
JobCompileReports(j) ==
    /\ jobs[j].pc = "report"
    /\ IF session_files[jobs[j].class_id] = NoJob
       THEN jobs' = [jobs EXCEPT ![j].pc = "failed",
                                 ![j].error = "FileNotFoundError"]
       ELSE \E built \in BOOLEAN :
            IF built
            THEN jobs' = [jobs EXCEPT ![j].pc = "cleanup",
                                      ![j].built_from = session_files[jobs[j].class_id]]
            ELSE jobs' = [jobs EXCEPT ![j].pc = "failed", ![j].error = "build"]
    /\ UNCHANGED session_files
    /\ UNCHANGED notJobVars

\* main.py lines 100-104: the transcript file of the class id is unlinked
\* if it exists
JobCleanup(j) ==
    /\ jobs[j].pc = "cleanup"
    /\ session_files' = [session_files EXCEPT ![jobs[j].class_id] = NoJob]
    /\ jobs' = [jobs EXCEPT ![j].pc = "stop_monitoring"]
    /\ UNCHANGED notJobVars

\* main.py line 115: monitor.stop_monitoring() is the last call inside the
\* try block, after the reports were compiled; performance_monitor.py lines
\* 58-68 guard nothing (join, _generate_summary), so an exception reaches
\* the except clause of lines 128-138, which returns [] in place of the
\* outputs
JobStopMonitoring(j) ==
    /\ jobs[j].pc = "stop_monitoring"
    /\ \E raises \in BOOLEAN :
        IF raises
        THEN jobs' = [jobs EXCEPT ![j].pc = "failed", ![j].error = "monitor"]
        ELSE jobs' = [jobs EXCEPT ![j].pc = "done"]
    /\ UNCHANGED session_files
    /\ UNCHANGED notJobVars

NextJobs ==
    \/ \E j \in JobIds : JobStartMonitoring(j)
    \/ \E j \in JobIds : JobTranscribe(j)
    \/ \E j \in JobIds : JobCompileReports(j)
    \/ \E j \in JobIds : JobCleanup(j)
    \/ \E j \in JobIds : JobStopMonitoring(j)

SpecJobs == InitJobs /\ [][NextJobs]_vars

\* C16: a transcript a job has written stays that job's own until its
\* report generation has read it: no other job overwrites or deletes it in
\* between, and every report is built from the transcript of its own job,
\* for any interleaving of jobs, two jobs for one class id included.
C16_TranscriptOwnedByJob ==
    \A j \in JobIds :
        /\ (jobs[j].wrote /\ jobs[j].pc = "report") =>
                session_files[jobs[j].class_id] = j
        /\ jobs[j].built_from \in {NoJob, j}

\* ----------------------------------- ModelManager.clear_cache
\* lines 102-103: under the class lock cls._lock (which get_model never
\* takes), self._models.clear() ...
ClearCacheModels ==
    /\ mm_clear.pc = "idle"
    /\ mm_clear.calls < MaxClears
    /\ mm_models' = {}
    /\ mm_clear' = [pc |-> "models_cleared", calls |-> mm_clear.calls + 1]
    /\ UNCHANGED <<mm_model_locks, mm_lock_holder, mm_loads, mm_thr>>
    /\ UNCHANGED <<runVars, attrVars, lookupVars, jobVars, twiceVars, regVars, singletonVars, monitorVars, bufferVars, windowVars>>

\* ... line 104: self._model_locks.clear(); the lock objects that threads
\* hold or wait for live on
ClearCacheLocks ==
    /\ mm_clear.pc = "models_cleared"
    /\ mm_model_locks' = [s \in ModelSizes |-> 0]
    /\ mm_clear' = [mm_clear EXCEPT !.pc = "idle"]
    /\ UNCHANGED <<mm_lock_holder, mm_models, mm_loads, mm_thr>>
    /\ UNCHANGED <<runVars, attrVars, lookupVars, jobVars, twiceVars, regVars, singletonVars, monitorVars, bufferVars, windowVars>>

\* line 70 when the table has lost the size's entry: self._model_locks[
\* model_size] raises KeyError out of get_model
LookupLockOrRaise(t) ==
    IF mm_model_locks[mm_thr[t].size] # 0
    THEN LookupLock(t)
    ELSE /\ mm_thr[t].pc = "lookup_lock"
         /\ mm_thr' = [mm_thr EXCEPT ![t].pc = "raised"]
         /\ UNCHANGED <<mm_model_locks, mm_lock_holder, mm_models, mm_loads>>
         /\ UNCHANGED notMmVars

\* line 94 when the cache has lost the size's entry: self._models[model_size]
\* raises KeyError; the with block releases the lock on the way out
ReturnModelOrRaise(t) ==
    IF mm_thr[t].size \in mm_models
    THEN ReturnModel(t)
    ELSE /\ mm_thr[t].pc = "return"
         /\ mm_lock_holder' = [mm_lock_holder EXCEPT ![mm_thr[t].lock] = 0]
         /\ mm_thr' = [mm_thr EXCEPT ![t].pc = "raised", ![t].lock = 0]
         /\ UNCHANGED <<mm_model_locks, mm_models, mm_loads>>
         /\ UNCHANGED notMmVars

NextClear ==
    \/ \E t \in Threads, s \in ModelSizes : GetModelCall(t, s)
    \/ \E t \in Threads : TestLock(t)
    \/ \E t \in Threads : CreateLock(t)
    \/ \E t \in Threads : LookupLockOrRaise(t)
    \/ \E t \in Threads : AcquireLock(t)
    \/ \E t \in Threads : TestCache(t)
    \/ \E t \in Threads : StoreModel(t)
    \/ \E t \in Threads : ReturnModelOrRaise(t)
    \/ ClearCacheModels
    \/ ClearCacheLocks

SpecClear == InitModel /\ [][NextClear]_vars

\* C21: the cache and the lock table change only under the lock of the size
\* concerned, so a get_model that runs while clear_cache runs never fails on
\* a missing lock or a missing cache entry: no call ends in a KeyError.
C21_GetModelSurvivesClear ==
    \A t \in Threads : mm_thr[t].pc # "raised"

\* ------------------------------- configurations outside the valid range
\* TranscriptionProcessor(model_size, segment_length, max_workers) is
\* constructed with whatever the caller passes: max_workers may be 0.
InitConfig ==
    /\ total_ms \in {h * (MsPerSecond \div 2) : h \in 0..MaxHalfSeconds}
    /\ segment_length \in 1..MaxSegLen
    /\ max_workers \in 0..MaxWorkers
    /\ parallel \in BOOLEAN
    /\ pc = "prepare"
    /\ segment_info = <<>>
    /\ temp_files = {}
    /\ fut = <<>>
    /\ collected = {}
    /\ raw = <<>>
    /\ ret = <<>>
    /\ all_segments = <<>>
    /\ transcript_file = NoFile
    /\ ret_value = "running"
    /\ outputs = [state |-> "running", built_from |-> <<>>]
    /\ IdleMm
    /\ IdleAttr
    /\ IdleLookup
    /\ IdleJobs
    /\ IdleClear
    /\ IdleTwice
    /\ IdleRegistry
    /\ IdleSingleton
    /\ IdleMonitor
    /\ IdleBuffers
    /\ IdleWindows

SpecConfig == InitConfig /\ [][NextRun]_vars

InvalidConfig == max_workers <= 0

\* C22: a job configuration with an invalid value is rejected before any
\* work starts: no temp file is created, no sub-range is planned or
\* transcribed, nothing is written and transcribe does not return normally.
C22_InvalidConfigRejected ==
    InvalidConfig =>
        /\ segment_info = <<>>
        /\ temp_files = {}
        /\ raw = <<>>
        /\ transcript_file = NoFile
        /\ ret_value \in {"running", "raised"}

\* ------------------------------------ _prepare_segments on its own
\* _prepare_segments(audio, total_duration, class_id) takes the duration as
\* an argument: negative durations are among its inputs.
InitPlan ==
    /\ total_ms \in {h * (MsPerSecond \div 2) : h \in (-MaxNegHalfSeconds)..MaxHalfSeconds}
    /\ segment_length \in 1..MaxSegLen
    /\ max_workers \in 1..MaxWorkers
    /\ parallel \in BOOLEAN
    /\ pc = "prepare"
    /\ segment_info = <<>>
    /\ temp_files = {}
    /\ fut = <<>>
    /\ collected = {}
    /\ raw = <<>>
    /\ ret = <<>>
    /\ all_segments = <<>>
    /\ transcript_file = NoFile
    /\ ret_value = "running"
    /\ outputs = [state |-> "running", built_from |-> <<>>]
    /\ IdleMm
    /\ IdleAttr
    /\ IdleLookup
    /\ IdleJobs
    /\ IdleClear
    /\ IdleTwice
    /\ IdleRegistry
    /\ IdleSingleton
    /\ IdleMonitor
    /\ IdleBuffers
    /\ IdleWindows

\* the loop of _prepare_segments, and its return to line 60
NextPlan ==
    \/ PrepareSegment
    \/ PrepareRaises
    \/ ChoosePath

SpecPlan == InitPlan /\ [][NextPlan]_vars

\* C23: planning with a negative total duration fails; it never returns a
\* plan, empty or not.
C23_NegativeDurationFails ==
    total_ms < 0 => ~PlanReady

\* C24: in every plan, as it is built and when it is returned, the indices
\* are 0..n-1 in order, entry i starts at i * L, every duration is > 0 and
\* <= L, and only the last entry of the finished plan may be shorter than L.
C24_PlanShape ==
    /\ \A i \in 1..Len(segment_info) :
         /\ segment_info[i].index = i - 1
         /\ segment_info[i].start_time = (i - 1) * segment_length
         /\ segment_info[i].duration > 0
         /\ segment_info[i].duration <= segment_length * MsPerSecond
    /\ \A i \in 1..(Len(segment_info) - 1) :
         segment_info[i].duration = segment_length * MsPerSecond

\* a finished plan of two sub-ranges whose last one is shorter than L
C24_Witness ==
    /\ PlanReady
    /\ Len(segment_info) = 2
    /\ segment_info[2].duration < segment_length * MsPerSecond
    /\ segment_info[1].duration = segment_length * MsPerSecond

\* the total duration is a whole number of segment lengths
ExactMultiple == total_ms % (segment_length * MsPerSecond) = 0

\* the engine reported every segment's local start inside its buffer
EngineInside ==
    \A k \in 1..Len(raw) :
        raw[k].ok => \A j \in 1..Len(raw[k].segments) :
                        raw[k].segments[j].start < segment_info[k].duration

\* the segments of a list whose start lies in the k-th window of length L
InWindow(segs, k) ==
    SelectSeq(segs, LAMBDA s :
        /\ (k - 1) * segment_length * MsPerSecond <= s.start
        /\ s.start < k * segment_length * MsPerSecond)

\* C25: when the total duration is an exact multiple of L the plan has
\* total / L sub-ranges, each of length L, and, the engine reporting local
\* starts inside its buffer, the segments of the transcript file whose start
\* lies in [k*L, (k+1)*L) are exactly those sub-range k returned.
C25_WindowsMatchSubRanges ==
    ExactMultiple =>
        /\ PlanReady =>
            /\ Len(segment_info) * segment_length * MsPerSecond = total_ms
            /\ \A i \in 1..Len(segment_info) :
                 segment_info[i].duration = segment_length * MsPerSecond
        /\ (transcript_file.exists /\ EngineInside) =>
            \A k \in 1..Len(segment_info) :
                InWindow(transcript_file.segments, k) = ret[k]

\* a parallel run over two full sub-ranges that completed out of plan order
\* wrote a transcript with a segment of each
C25_Witness ==
    /\ ExactMultiple
    /\ transcript_file.exists
    /\ EngineInside
    /\ collected # {}
    /\ Len(segment_info) = 2
    /\ ret[1] # <<>>
    /\ ret[2] # <<>>
    /\ ~IsSortedByStart(all_segments)

\* ------------------------- transcribe twice on the same audio
\* The same audio is transcribed twice with the same settings and
\* parallel=False. The engine is a function of the buffer it is given: the
\* second run exports the same slices, so each of its calls gets the answer
\* the first run got for that sub-range.
InitTwice ==
    /\ InitRunVars
    /\ parallel = FALSE
    /\ IdleMm
    /\ IdleAttr
    /\ IdleLookup
    /\ IdleJobs
    /\ IdleClear
    /\ IdleTwice
    /\ IdleRegistry
    /\ IdleSingleton
    /\ IdleMonitor
    /\ IdleBuffers
    /\ IdleWindows

SeqTranscribeSameEngine ==
    /\ SeqTranscribe
    /\ first_run.done =>
        \A k \in 1..Len(raw') : raw'[k] # NoCall => raw'[k] = first_run.raw[k]

\* transcribe has returned; it is called again with the same arguments
RunAgain ==
    /\ pc = "report"
    /\ ~first_run.done
    /\ first_run' = [done |-> TRUE, raw |-> raw, file |-> transcript_file,
                     ret_value |-> ret_value]
    /\ pc' = "prepare"
    /\ segment_info' = <<>>
    /\ raw' = <<>>
    /\ ret' = <<>>
    /\ all_segments' = <<>>
    /\ ret_value' = "running"
    /\ UNCHANGED <<total_ms, segment_length, max_workers, parallel, temp_files,
                   fut, collected, transcript_file, outputs>>
    /\ UNCHANGED <<mmVars, attrVars, lookupVars, jobVars, clearVars, regVars,
                   singletonVars, monitorVars, bufferVars, windowVars>>

NextTwice ==
    \/ PrepareSegment
    \/ ChoosePath
    \/ SeqTranscribeSameEngine
    \/ SeqReturn
    \/ Finish
    \/ RunAgain

SpecTwice == InitTwice /\ [][NextTwice]_vars

\* C26: two runs on the same audio with the same settings, parallel=False,
\* and an engine that is a function of its input buffer end alike: the
\* second returns what the first returned, and the transcript it leaves has
\* the same segments, text, timing and words, in the same order.
C26_SequentialRunsAgree ==
    (first_run.done /\ pc = "report") =>
        /\ ret_value = first_run.ret_value
        /\ transcript_file = first_run.file

\* both runs wrote a transcript of segments from two sub-ranges, one of
\* which made the other's start its own
C26_Witness ==
    /\ first_run.done
    /\ pc = "report"
    /\ transcript_file.exists
    /\ Len(transcript_file.segments) >= 2
    /\ transcript_file.segments[1].start = transcript_file.segments[2].start
    /\ transcript_file.segments[1].end # transcript_file.segments[2].end

\* the malformed voice events of the list, and the malformed windows that
\* the speaker map holds: its entries are all that the report generator
\* keeps of the voice events
MalformedEvents == {i \in 1..Len(voice_events) : voice_events[i].end < voice_events[i].start}

MalformedKept == {i \in 1..Len(speaker_map) : speaker_map[i].key[2] < speaker_map[i].key[1]}

\* C27: a malformed voice window (end < start) is skipped: it is the speaker
\* of no time point and stops no lookup, and the malformed windows are
\* counted: what the report generator holds after building its map tells
\* how many of the voice events were malformed.
C27_MalformedSkippedAndCounted ==
    /\ at_pc # "map" => Cardinality(MalformedKept) = Cardinality(MalformedEvents)
    /\ (at_pc = "found" /\ MalformedEvents = 1..Len(voice_events)) =>
            found_speaker = Professor

\* C28: a failure inside the PerformanceMonitor (start or stop raising)
\* never fails the job: no job ends failed because of an exception that
\* came out of the monitor.
C28_MonitorNeverFailsJob ==
    \A j \in JobIds : ~(jobs[j].pc = "failed" /\ jobs[j].error = "monitor")

\* C29: the engine is asked for word-level timestamps exactly when the
\* caller's option is true, and a caller that passes the option is served:
\* its transcribe call is not rejected.
C29_WordTimestampsFollowOption ==
    \A j \in JobIds :
        jobs[j].word_timestamps # "unset" =>
            /\ jobs[j].error # "TypeError"
            /\ jobs[j].engine_words \in {"none", jobs[j].word_timestamps}

\* ------------------------------------------- parallel against sequential
\* _transcribe_sequential (lines 146-157) on the answers the engine gave in
\* this run: the plan is walked in order and every sub-range's returned
\* list is appended
RECURSIVE SequentialUpTo(_)
SequentialUpTo(n) ==
    IF n = 0 THEN <<>>
    ELSE SequentialUpTo(n - 1) \o
            (IF raw[n].called /\ raw[n].ok
             THEN ProcessSegments(raw[n].segments, segment_info[n].start_time)
             ELSE <<>>)

SequentialSegments == SequentialUpTo(Len(segment_info))

Occurrences(s, x) == Cardinality({i \in 1..Len(s) : s[i] = x})

SameMultiset(s, t) ==
    \A x \in {s[i] : i \in 1..Len(s)} \cup {t[i] : i \in 1..Len(t)} :
        Occurrences(s, x) = Occurrences(t, x)

DistinctStarts(s) ==
    \A i, j \in 1..Len(s) : i # j => s[i].start # s[j].start

\* C30: for the same plan and the same engine answers, the parallel path
\* persists the same multiset of segments as the sequential path would, in
\* every completion order of the workers (and writes a file exactly when the
\* sequential path would); the persisted sequences are equal whenever all
\* segment starts are distinct.
C30_ParallelMatchesSequential ==
    (collected # {} /\ pc \in {"report", "finished", "caller_except"}) =>
        /\ transcript_file.exists <=> SequentialSegments # <<>>
        /\ transcript_file.exists =>
            /\ SameMultiset(transcript_file.segments,
                            PersistedSegments(SequentialSegments))
            /\ DistinctStarts(transcript_file.segments) =>
                 transcript_file.segments = PersistedSegments(SequentialSegments)

\* a parallel run whose workers were collected out of plan order wrote a
\* transcript of two or more segments with distinct starts
C30_Witness ==
    /\ collected # {}
    /\ transcript_file.exists
    /\ all_segments # SequentialSegments
    /\ Len(transcript_file.segments) >= 2
    /\ DistinctStarts(transcript_file.segments)

\* ------------------------------------ consolidation of punctuated texts
\* The same loop over a transcript whose texts are a sentence and a letter
\* followed by a blank and a full stop ("o ."): three characters, no filler
\* token. The segments lie on the first seconds of the class.
PunctuatedTexts == {<<"h", "e", "y">>, <<"o", " ", ".">>}

PunctuatedSegs ==
    {[start |-> s, end |-> s + MsPerSecond, text |-> x] :
        s \in AttrTimes, x \in PunctuatedTexts}

ConsolidatePunctuated == ConsolidateFrom(PunctuatedSegs)

NextTurns ==
    \/ ConsolidatePunctuated
    \/ FlushAndFlatten

SpecTurns == InitAttr /\ [][NextTurns]_vars

\* the stripped texts of a list of segments, and of a list of turns, that
\* are not degenerate, in order
RECURSIVE SpeechOfSegments(_)
SpeechOfSegments(segs) ==
    IF segs = <<>> THEN <<>>
    ELSE LET before == SpeechOfSegments(SubSeq(segs, 1, Len(segs) - 1))
             text == Strip(segs[Len(segs)].text)
         IN IF IsDegenerate(text) THEN before ELSE Append(before, text)

RECURSIVE SpeechOfTexts(_)
SpeechOfTexts(texts) ==
    IF texts = <<>> THEN <<>>
    ELSE LET before == SpeechOfTexts(SubSeq(texts, 1, Len(texts) - 1))
         IN IF IsDegenerate(texts[Len(texts)]) THEN before
            ELSE Append(before, texts[Len(texts)])

\* the turns that reach the output: those the flatten step does not skip
RECURSIVE SpeechOfOutputTurns(_)
SpeechOfOutputTurns(entries) ==
    IF entries = <<>> THEN <<>>
    ELSE LET entry == entries[Len(entries)]
             before == SpeechOfOutputTurns(SubSeq(entries, 1, Len(entries) - 1))
         IN IF \E i \in 1..Len(all_items) :
                    /\ all_items[i].start_time = entry.start_time
                    /\ all_items[i].text =
                         NormalizeSentenceSpacing(Strip(JoinText(entry.text)))
            THEN before \o SpeechOfTexts(entry.text)
            ELSE before

\* C31: consolidation neither loses nor duplicates speech: once the report
\* rows are built, the non-degenerate texts of the transcript's segments are,
\* one for one and in transcript order, the non-degenerate texts of the
\* turns that reached the output, the turn flushed at the end included.
C31_SpeechKept ==
    at_pc = "done" =>
        SpeechOfOutputTurns(compiled_entries) = SpeechOfSegments(segments)

\* ------------------------------------------- the web job registry
\* upload (app.py lines 77-90, demo_app.py lines 53-66): the job is entered
\* as pending with an empty outputs list and its background thread started
WebApps == {"app", "demo"}

JobOutputs == <<"names">>

InitRegistryVars ==
    /\ web_app \in WebApps
    /\ processing_status = [j \in JobIds |-> [status |-> "pending", outputs |-> <<>>]]
    /\ bg_pc = [j \in JobIds |-> "start"]
    /\ request = [pc |-> "none", job |-> NoJob, route |-> "none",
                  response |-> 0, served |-> 0]

InitRegistry ==
    /\ InitRegistryVars
    /\ IdleRun
    /\ IdleMm
    /\ IdleAttr
    /\ IdleLookup
    /\ IdleJobs
    /\ IdleClear
    /\ IdleTwice
    /\ IdleSingleton
    /\ IdleMonitor
    /\ IdleBuffers
    /\ IdleWindows

\* app.py line 98, demo_app.py line 83: status = 'processing'
BgStart(j) ==
    /\ bg_pc[j] = "start"
    /\ processing_status' = [processing_status EXCEPT ![j].status = "processing"]
    /\ bg_pc' = [bg_pc EXCEPT ![j] = "call"]
    /\ UNCHANGED <<web_app, request>>
    /\ UNCHANGED notRegVars

\* app.py line 115: process_lecture_with_progress returns the outputs to
\* the thread or raises; demo_app.py line 88: create_demo_outputs stores
\* the outputs in the registry itself (line 140) or raises
BgCall(j) ==
    /\ bg_pc[j] = "call"
    /\ \E returns \in BOOLEAN :
        IF returns
        THEN /\ bg_pc' = [bg_pc EXCEPT ![j] = "set_completed"]
             /\ processing_status' =
                    IF web_app = "demo"
                    THEN [processing_status EXCEPT ![j].outputs = JobOutputs]
                    ELSE processing_status
        ELSE /\ bg_pc' = [bg_pc EXCEPT ![j] = "set_error"]
             /\ UNCHANGED processing_status
    /\ UNCHANGED <<web_app, request>>
    /\ UNCHANGED notRegVars

\* app.py line 117, demo_app.py line 90: status = 'completed'
BgSetCompleted(j) ==
    /\ bg_pc[j] = "set_completed"
    /\ processing_status' = [processing_status EXCEPT ![j].status = "completed"]
    /\ bg_pc' = [bg_pc EXCEPT ![j] = IF web_app = "app" THEN "set_outputs" ELSE "done"]
    /\ UNCHANGED <<web_app, request>>
    /\ UNCHANGED notRegVars

\* app.py line 119: processing_status[job_id]['outputs'] = outputs
BgSetOutputs(j) ==
    /\ bg_pc[j] = "set_outputs"
    /\ processing_status' = [processing_status EXCEPT ![j].outputs = JobOutputs]
    /\ bg_pc' = [bg_pc EXCEPT ![j] = "done"]
    /\ UNCHANGED <<web_app, request>>
    /\ UNCHANGED notRegVars

\* app.py lines 122-125, demo_app.py lines 94-97: status = 'error'
BgSetError(j) ==
    /\ bg_pc[j] = "set_error"
    /\ processing_status' = [processing_status EXCEPT ![j].status = "error"]
    /\ bg_pc' = [bg_pc EXCEPT ![j] = "done"]
    /\ UNCHANGED <<web_app, request>>
    /\ UNCHANGED notRegVars

\* download_file (app.py lines 221-227) and save_and_analyze (lines
\* 461-467, app.py only): a status other than 'completed' is answered 400
RequestReadStatus(j, route) ==
    /\ request.pc \in {"none", "answered"}
    /\ request.served < MaxRequests
    /\ route = "save_and_analyze" => web_app = "app"
    /\ request' =
        IF processing_status[j].status # "completed"
        THEN [pc |-> "answered", job |-> j, route |-> route, response |-> 400,
              served |-> request.served + 1]
        ELSE [pc |-> "read_outputs", job |-> j, route |-> route, response |-> 0,
              served |-> request.served + 1]
    /\ UNCHANGED <<web_app, processing_status, bg_pc>>
    /\ UNCHANGED notRegVars

\* download_file lines 229-236: the loop over status['outputs'] sends the
\* file of the job's mode, and "File not found" (404) when it meets none;
\* save_and_analyze line 476: status['outputs'][0] raises IndexError on an
\* empty list, answered 500 by the handler's except
RequestReadOutputs ==
    /\ request.pc = "read_outputs"
    /\ request' = [request EXCEPT
            !.pc = "answered",
            !.response = IF processing_status[request.job].outputs # <<>> THEN 200
                         ELSE IF request.route = "download" THEN 404 ELSE 500]
    /\ UNCHANGED <<web_app, processing_status, bg_pc>>
    /\ UNCHANGED notRegVars

NextRegistry ==
    \/ \E j \in JobIds : BgStart(j)
    \/ \E j \in JobIds : BgCall(j)
    \/ \E j \in JobIds : BgSetCompleted(j)
    \/ \E j \in JobIds : BgSetOutputs(j)
    \/ \E j \in JobIds : BgSetError(j)
    \/ \E j \in JobIds, route \in {"download", "save_and_analyze"} :
            RequestReadStatus(j, route)
    \/ RequestReadOutputs

SpecRegistry == InitRegistry /\ [][NextRegistry]_vars

RunsBefore(j) == \A i \in 1..(j - 1) : jobs[i].pc \in {"done", "failed"}

NextSequence ==
    \/ \E j \in JobIds : RunsBefore(j) /\ JobStartMonitoring(j)
    \/ \E j \in JobIds : RunsBefore(j) /\ JobTranscribe(j)
    \/ \E j \in JobIds : RunsBefore(j) /\ JobCompileReports(j)
    \/ \E j \in JobIds : RunsBefore(j) /\ JobCleanup(j)
    \/ \E j \in JobIds : RunsBefore(j) /\ JobStopMonitoring(j)

SpecSequence == InitJobs /\ [][NextSequence]_vars

\* C33: across a sequence of runs a report is built only from the
\* transcript the same run persisted: a run whose transcription wrote no
\* transcript builds no report, whatever file an earlier run for the class
\* id left behind.
C33_NoReportFromEarlierRun ==
    \A j \in JobIds : ~jobs[j].wrote => jobs[j].built_from = NoJob

\* ------------------------------------------- ModelManager() construction
\* ModelManager() runs __new__ and then __init__ on what __new__ returned
\* (TranscriptionProcessor.__init__ line 25, one per job thread).
SingletonIdle == [t \in Threads |-> "idle"]

InitSingletonVars ==
    /\ sg_instance = "none"
    /\ sg_initialized = "unset"
    /\ sg_class_lock = 0
    /\ sg_models = {}
    /\ sg_init = [runs |-> 0, lost_engine |-> FALSE]
    /\ sg_thr = SingletonIdle

InitSingleton ==
    /\ InitSingletonVars
    /\ IdleRun
    /\ IdleMm
    /\ IdleAttr
    /\ IdleLookup
    /\ IdleJobs
    /\ IdleClear
    /\ IdleTwice
    /\ IdleRegistry
    /\ IdleMonitor
    /\ IdleBuffers
    /\ IdleWindows

\* a thread calls ModelManager()
Construct(t) ==
    /\ sg_thr[t] = "idle"
    /\ sg_thr' = [sg_thr EXCEPT ![t] = "new_test"]
    /\ UNCHANGED <<sg_instance, sg_initialized, sg_class_lock, sg_models, sg_init>>
    /\ UNCHANGED notSingletonVars

\* line 14: if cls._instance is None (else line 19 returns the instance and
\* __init__ is entered)
NewTest(t) ==
    /\ sg_thr[t] = "new_test"
    /\ sg_thr' = [sg_thr EXCEPT ![t] =
                    IF sg_instance = "none" THEN "new_lock" ELSE "init_test"]
    /\ UNCHANGED <<sg_instance, sg_initialized, sg_class_lock, sg_models, sg_init>>
    /\ UNCHANGED notSingletonVars

\* line 15: with cls._lock
NewLock(t) ==
    /\ sg_thr[t] = "new_lock"
    /\ sg_class_lock = 0
    /\ sg_class_lock' = t
    /\ sg_thr' = [sg_thr EXCEPT ![t] = "new_retest"]
    /\ UNCHANGED <<sg_instance, sg_initialized, sg_models, sg_init>>
    /\ UNCHANGED notSingletonVars

\* line 16: the second test, under the lock; the with block is left when
\* the instance is there already
NewRetest(t) ==
    /\ sg_thr[t] = "new_retest"
    /\ IF sg_instance = "none"
       THEN /\ sg_thr' = [sg_thr EXCEPT ![t] = "new_create"]
            /\ UNCHANGED sg_class_lock
       ELSE /\ sg_thr' = [sg_thr EXCEPT ![t] = "init_test"]
            /\ sg_class_lock' = 0
    /\ UNCHANGED <<sg_instance, sg_initialized, sg_models, sg_init>>
    /\ UNCHANGED notSingletonVars

\* line 17: cls._instance = super().__new__(cls): the class attribute holds
\* an object that has no _initialized attribute yet
NewCreate(t) ==
    /\ sg_thr[t] = "new_create"
    /\ sg_instance' = "created"
    /\ sg_thr' = [sg_thr EXCEPT ![t] = "new_flag"]
    /\ UNCHANGED <<sg_initialized, sg_class_lock, sg_models, sg_init>>
    /\ UNCHANGED notSingletonVars

\* line 18: cls._instance._initialized = False, and the with block ends
NewFlag(t) ==
    /\ sg_thr[t] = "new_flag"
    /\ sg_initialized' = "false"
    /\ sg_class_lock' = 0
    /\ sg_thr' = [sg_thr EXCEPT ![t] = "init_test"]
    /\ UNCHANGED <<sg_instance, sg_models, sg_init>>
    /\ UNCHANGED notSingletonVars

\* lines 22-23: if self._initialized: return. Reading the attribute of an
\* object that has none raises AttributeError. No lock is held in __init__.
InitTest(t) ==
    /\ sg_thr[t] = "init_test"
    /\ sg_thr' = [sg_thr EXCEPT ![t] =
                    CASE sg_initialized = "unset" -> "raised"
                      [] sg_initialized = "true"  -> "constructed"
                      [] sg_initialized = "false" -> "init_models"]
    /\ UNCHANGED <<sg_instance, sg_initialized, sg_class_lock, sg_models, sg_init>>
    /\ UNCHANGED notSingletonVars

\* line 25: self._models = {}
InitModels(t) ==
    /\ sg_thr[t] = "init_models"
    /\ sg_models' = {}
    /\ sg_init' = [runs |-> sg_init.runs + 1,
                   lost_engine |-> sg_init.lost_engine \/ sg_models # {}]
    /\ sg_thr' = [sg_thr EXCEPT ![t] = "init_rest"]
    /\ UNCHANGED <<sg_instance, sg_initialized, sg_class_lock>>
    /\ UNCHANGED notSingletonVars

\* lines 26-28: the lock table, the device, self._initialized = True
InitRest(t) ==
    /\ sg_thr[t] = "init_rest"
    /\ sg_initialized' = "true"
    /\ sg_thr' = [sg_thr EXCEPT ![t] = "constructed"]
    /\ UNCHANGED <<sg_instance, sg_class_lock, sg_models, sg_init>>
    /\ UNCHANGED notSingletonVars

\* TranscriptionProcessor.__init__ line 38: the caller that holds the
\* instance pre-loads its engine (get_model, line 89)
PreLoad(t) ==
    /\ sg_thr[t] = "constructed"
    /\ \E size \in ModelSizes : sg_models' = sg_models \cup {size}
    /\ sg_thr' = [sg_thr EXCEPT ![t] = "loaded"]
    /\ UNCHANGED <<sg_instance, sg_initialized, sg_class_lock, sg_init>>
    /\ UNCHANGED notSingletonVars

NextSingleton ==
    \/ \E t \in Threads : Construct(t)
    \/ \E t \in Threads : NewTest(t)
    \/ \E t \in Threads : NewLock(t)
    \/ \E t \in Threads : NewRetest(t)
    \/ \E t \in Threads : NewCreate(t)
    \/ \E t \in Threads : NewFlag(t)
    \/ \E t \in Threads : InitTest(t)
    \/ \E t \in Threads : InitModels(t)
    \/ \E t \in Threads : InitRest(t)
    \/ \E t \in Threads : PreLoad(t)

SpecSingleton == InitSingleton /\ [][NextSingleton]_vars

\* C34: for any interleaving of concurrent ModelManager() calls every
\* caller obtains the instance (none is turned away), its state is
\* initialised exactly once, and no constructor call empties a cache that
\* already holds a loaded engine.
C34_InitialisedOnce ==
    /\ sg_init.runs <= 1
    /\ ~sg_init.lost_engine
    /\ \A t \in Threads : sg_thr[t] # "raised"

\* ------------------------------------------------- PerformanceMonitor
\* __init__ (lines 26-30): no measurement, not monitoring, no thread
InitMonitorVars ==
    /\ mon_monitoring = FALSE
    /\ mon_lock = "free"
    /\ mon_caller = [pc |-> "idle", calls |-> 0]
    /\ mon_threads = <<>>
    /\ mon_samples = 0

InitMonitor ==
    /\ InitMonitorVars
    /\ IdleRun
    /\ IdleMm
    /\ IdleAttr
    /\ IdleLookup
    /\ IdleJobs
    /\ IdleClear
    /\ IdleTwice
    /\ IdleRegistry
    /\ IdleSingleton
    /\ IdleBuffers
    /\ IdleWindows

\* a sampling thread as Thread.start() leaves it: about to test the loop
\* condition; stopped tells that stop_monitoring has ended its session,
\* resumed that it went on sampling afterwards
NewSampler == [pc |-> "test", stopped |-> FALSE, resumed |-> FALSE]

\* start_monitoring (lines 44-56), all of it under self.lock: nothing when
\* monitoring already; else the flag is set, the history cleared and a new
\* thread started
StartMonitoring ==
    /\ mon_caller.pc = "idle"
    /\ mon_caller.calls < MaxMonitorCalls
    /\ mon_lock = "free"
    /\ mon_caller' = [mon_caller EXCEPT !.calls = @ + 1]
    /\ IF mon_monitoring
       THEN UNCHANGED <<mon_monitoring, mon_threads, mon_samples>>
       ELSE /\ mon_monitoring' = TRUE
            /\ mon_samples' = 0
            /\ mon_threads' = Append(mon_threads, NewSampler)
    /\ UNCHANGED mon_lock
    /\ UNCHANGED notMonitorVars

\* stop_monitoring, lines 60-66: under self.lock, {} when not monitoring;
\* else the flag is cleared and the caller waits in join(timeout=1.0),
\* still holding the lock
StopMonitoring ==
    /\ mon_caller.pc = "idle"
    /\ mon_caller.calls < MaxMonitorCalls
    /\ mon_lock = "free"
    /\ IF mon_monitoring
       THEN /\ mon_monitoring' = FALSE
            /\ mon_lock' = "caller"
            /\ mon_caller' = [pc |-> "join", calls |-> mon_caller.calls + 1]
            /\ mon_threads' = [i \in 1..Len(mon_threads) |->
                                [mon_threads[i] EXCEPT !.stopped = TRUE]]
       ELSE /\ mon_caller' = [mon_caller EXCEPT !.calls = @ + 1]
            /\ UNCHANGED <<mon_monitoring, mon_lock, mon_threads>>
    /\ UNCHANGED mon_samples
    /\ UNCHANGED notMonitorVars

\* lines 66-68: join returns when the thread has ended or when the second
\* is over (a thread in sleep(2.0) or waiting for the lock outlasts it);
\* the summary is made and the lock released
JoinReturns ==
    /\ mon_caller.pc = "join"
    /\ mon_caller' = [mon_caller EXCEPT !.pc = "idle"]
    /\ mon_lock' = "free"
    /\ UNCHANGED <<mon_monitoring, mon_threads, mon_samples>>
    /\ UNCHANGED notMonitorVars

\* _monitor_loop line 78: while self.monitoring
SamplerTest(i) ==
    /\ mon_threads[i].pc = "test"
    /\ mon_threads' = [mon_threads EXCEPT ![i] =
            IF mon_monitoring
            THEN [pc |-> "collect", stopped |-> @.stopped, resumed |-> @.stopped]
            ELSE [@ EXCEPT !.pc = "exited"]]
    /\ UNCHANGED <<mon_monitoring, mon_lock, mon_caller, mon_samples>>
    /\ UNCHANGED notMonitorVars

\* lines 80-85: the measurement is taken and, under the lock, appended to
\* metrics_history, which keeps its last measurements (lines 88-90: an
\* exception while measuring is printed and the loop goes on)
SamplerAppend(i) ==
    /\ mon_threads[i].pc = "collect"
    /\ \E raises \in BOOLEAN :
        IF raises
        THEN UNCHANGED mon_samples
        ELSE /\ mon_lock = "free"
             /\ mon_samples' = IF mon_samples < MaxSamples THEN mon_samples + 1
                               ELSE MaxSamples
    /\ mon_threads' = [mon_threads EXCEPT ![i].pc = "sleep"]
    /\ UNCHANGED <<mon_monitoring, mon_lock, mon_caller>>
    /\ UNCHANGED notMonitorVars

\* lines 87, 90: time.sleep is over
SamplerWakes(i) ==
    /\ mon_threads[i].pc = "sleep"
    /\ mon_threads' = [mon_threads EXCEPT ![i].pc = "test"]
    /\ UNCHANGED <<mon_monitoring, mon_lock, mon_caller, mon_samples>>
    /\ UNCHANGED notMonitorVars

NextMonitor ==
    \/ StartMonitoring
    \/ StopMonitoring
    \/ JoinReturns
    \/ \E i \in 1..Len(mon_threads) : SamplerTest(i)
    \/ \E i \in 1..Len(mon_threads) : SamplerAppend(i)
    \/ \E i \in 1..Len(mon_threads) : SamplerWakes(i)

SpecMonitor == InitMonitor /\ [][NextMonitor]_vars

\* C35: for any sequence of start_monitoring and stop_monitoring calls on
\* one monitor at most one sampling thread is appending to metrics_history
\* at a time, and a thread whose session was stopped never samples again.
C35_OneSampler ==
    /\ \A i, j \in 1..Len(mon_threads) :
         (mon_threads[i].pc = "collect" /\ mon_threads[j].pc = "collect") => i = j
    /\ \A i \in 1..Len(mon_threads) : ~mon_threads[i].resumed

\* ---------------------------- temp working buffers of concurrent jobs
\* Jobs run transcribe side by side (one background thread per upload, or
\* several runs of main.py) with the same settings; each has a class id
\* and a plan of MaxBuffers sub-ranges of MaxSegLen seconds.
BufferIndexes == 1..MaxBuffers

\* lines 94-97: the path of the k-th sub-range's buffer in the temp
\* directory all jobs share (utils.py lines 10-13)
BufferPath(cid, k) == TempPath(cid, k - 1, (k - 1) * MaxSegLen)

BufferPaths == {BufferPath(c, k) : c \in ClassIds, k \in BufferIndexes}

\* a sub-range before its buffer is exported; opened is the job whose data
\* the worker found in the file when it opened it
PlannedBuffer == [pc |-> "planned", opened |-> NoJob]

InitBufferVars ==
    /\ buf_files = [p \in BufferPaths |-> NoJob]
    /\ buf_jobs \in [JobIds -> {[class_id |-> c,
                                 sub |-> [k \in BufferIndexes |-> PlannedBuffer]] :
                                    c \in ClassIds}]

InitBuffers ==
    /\ InitBufferVars
    /\ IdleRun
    /\ IdleMm
    /\ IdleAttr
    /\ IdleLookup
    /\ IdleJobs
    /\ IdleClear
    /\ IdleTwice
    /\ IdleRegistry
    /\ IdleSingleton
    /\ IdleMonitor
    /\ IdleWindows

PathOf(j, k) == BufferPath(buf_jobs[j].class_id, k)

\* _prepare_segments, lines 94-98: one iteration of the loop; export opens
\* the path for writing and replaces what is there
ExportBuffer(j, k) ==
    /\ buf_jobs[j].sub[k].pc = "planned"
    /\ \A i \in 1..(k - 1) : buf_jobs[j].sub[i].pc # "planned"
    /\ buf_files' = [buf_files EXCEPT ![PathOf(j, k)] = j]
    /\ buf_jobs' = [buf_jobs EXCEPT ![j].sub[k].pc = "exported"]
    /\ UNCHANGED notBufferVars

\* a pool worker enters _transcribe_segment (lines 161-186) once the plan
\* is complete: model.transcribe opens temp_path, and raises when the file
\* is not there
WorkerOpens(j, k) ==
    /\ buf_jobs[j].sub[k].pc = "exported"
    /\ \A i \in BufferIndexes : buf_jobs[j].sub[i].pc # "planned"
    /\ Cardinality({i \in BufferIndexes : buf_jobs[j].sub[i].pc = "reading"})
            < MaxWorkers
    /\ buf_jobs' = [buf_jobs EXCEPT ![j].sub[k] =
            IF buf_files[PathOf(j, k)] = NoJob
            THEN [pc |-> "failed", opened |-> NoJob]
            ELSE [pc |-> "reading", opened |-> buf_files[PathOf(j, k)]]]
    /\ UNCHANGED buf_files
    /\ UNCHANGED notBufferVars

\* model.transcribe returns: the worker has done with the buffer
WorkerCloses(j, k) ==
    /\ buf_jobs[j].sub[k].pc = "reading"
    /\ buf_jobs' = [buf_jobs EXCEPT ![j].sub[k].pc = "read"]
    /\ UNCHANGED buf_files
    /\ UNCHANGED notBufferVars

\* _transcribe_parallel, lines 124-137: the finished future is collected
\* and, in the finally, its temp_path unlinked (missing_ok=True)
CollectBuffer(j, k) ==
    /\ buf_jobs[j].sub[k].pc \in {"read", "failed"}
    /\ buf_files' = [buf_files EXCEPT ![PathOf(j, k)] = NoJob]
    /\ buf_jobs' = [buf_jobs EXCEPT ![j].sub[k].pc = "collected"]
    /\ UNCHANGED notBufferVars

NextBuffers ==
    \/ \E j \in JobIds, k \in BufferIndexes : ExportBuffer(j, k)
    \/ \E j \in JobIds, k \in BufferIndexes : WorkerOpens(j, k)
    \/ \E j \in JobIds, k \in BufferIndexes : WorkerCloses(j, k)
    \/ \E j \in JobIds, k \in BufferIndexes : CollectBuffer(j, k)

SpecBuffers == InitBuffers /\ [][NextBuffers]_vars

\* C36: a temp working buffer is never deleted or overwritten while a
\* worker is reading it: as long as a worker reads, the file at its path is
\* there and holds what it held when the worker opened it, for every
\* interleaving of the workers of one job and of concurrent jobs.
C36_BufferStableWhileRead ==
    \A j \in JobIds, k \in BufferIndexes :
        buf_jobs[j].sub[k].pc = "reading" =>
            buf_files[PathOf(j, k)] = buf_jobs[j].sub[k].opened

\* the segments merged into the turn in progress: the last ones, as many as
\* the turn has texts, of the segments read so far that have a text
HasText(seg) == Strip(seg.text) # <<>>

TurnSegments ==
    LET spoken == SelectSeq(segments, HasText)
        n == Len(current_entry.text)
    IN SubSeq(spoken, Len(spoken) - n + 1, Len(spoken))

\* C37: a turn spans all the segments merged into it: its start is its
\* first segment's start, its end is at least the end of every merged
\* segment (so appending a segment never moves the end backwards), and
\* start <= end.
C37_TurnSpansSegments ==
    current_entry # NoEntry =>
        /\ current_entry.start_time = TurnSegments[1].start
        /\ current_entry.start_time <= current_entry.end_time
        /\ \A i \in 1..Len(TurnSegments) :
             TurnSegments[i].end <= current_entry.end_time

\* ---------------------------- the transcript section's event windows
\* The timeline events of the class as the fetcher stores them: offsets
\* from the start of the recording, sorted (forum_data_fetcher.py lines
\* 84, 91); an event that began before the recording has a negative one.
TimelineOffsets == {s * MsPerSecond : s \in (-1)..MaxOffsetSeconds}

IsNonDecreasing(s) == \A i \in 1..(Len(s) - 1) : s[i] <= s[i + 1]

TimelineLists ==
    {s \in SeqsUpTo(TimelineOffsets, MaxEvents) : IsNonDecreasing(s)}

\* the start times of the rows of all_items, sorted (line 234)
RowStartLists ==
    {s \in SeqsUpTo(AttrTimes, MaxRows) : s # <<>> /\ IsNonDecreasing(s)}

\* float('inf'): later than every row and every event
Infinity == (LastAttrSecond + MaxOffsetSeconds + 1) * MsPerSecond

\* x or 0, x or float('inf'), max(0, x) on a number
OrZero(x) == IF x = 0 THEN 0 ELSE x
OrInfinity(x) == IF x = 0 THEN Infinity ELSE x
AtLeastZero(x) == IF x > 0 THEN x ELSE 0

InitWindowVars ==
    /\ tl_offsets \in TimelineLists
    /\ tl_items \in RowStartLists
    /\ tl_windows = <<>>
    /\ tl_rows = <<>>
    /\ tl_pc = "preamble"

InitWindows ==
    /\ InitWindowVars
    /\ IdleRun
    /\ IdleMm
    /\ IdleAttr
    /\ IdleLookup
    /\ IdleJobs
    /\ IdleClear
    /\ IdleTwice
    /\ IdleRegistry
    /\ IdleSingleton
    /\ IdleMonitor
    /\ IdleBuffers

\* lines 238-241 and 251-252: without timeline events one window holds the
\* whole transcript; with events, a window "Before first event" is put
\* ahead when the first event starts after 0
AddPreamble ==
    /\ tl_pc = "preamble"
    /\ IF tl_offsets = <<>>
       THEN /\ tl_windows' = <<[start |-> 0, end |-> Infinity, event |-> 0]>>
            /\ tl_pc' = "bucket"
       ELSE LET first_start == AtLeastZero(OrZero(tl_offsets[1]))
            IN /\ tl_windows' =
                    IF first_start > 0
                    THEN <<[start |-> 0, end |-> first_start, event |-> 0]>>
                    ELSE <<>>
               /\ tl_pc' = "windows"
    /\ UNCHANGED <<tl_offsets, tl_items, tl_rows>>
    /\ UNCHANGED notWindowVars

\* the events that have their window already
EventsDone == Cardinality({w \in 1..Len(tl_windows) : tl_windows[w].event > 0})

\* lines 242-250: one iteration of the loop over timeline_segments: the
\* window runs from max(0, offset) to the next event's offset as it is
\* stored, or to infinity when there is no next event or its offset is 0
AddWindow ==
    /\ tl_pc = "windows"
    /\ LET idx == EventsDone + 1
           start == AtLeastZero(OrZero(tl_offsets[idx]))
           end == OrInfinity(IF idx + 1 <= Len(tl_offsets)
                             THEN tl_offsets[idx + 1] ELSE Infinity)
       IN /\ tl_windows' = Append(tl_windows,
                                  [start |-> start, end |-> end, event |-> idx])
          /\ tl_pc' = IF idx = Len(tl_offsets) THEN "bucket" ELSE "windows"
    /\ UNCHANGED <<tl_offsets, tl_items, tl_rows>>
    /\ UNCHANGED notWindowVars

\* the windows whose bucket was looked at
RECURSIVE BucketRows(_, _)
BucketRows(w, i) ==
    IF i = 0 THEN <<>>
    ELSE LET before == BucketRows(w, i - 1)
         IN IF tl_windows[w].start <= tl_items[i] /\ tl_items[i] < tl_windows[w].end
            THEN Append(before, [window |-> w, item |-> i])
            ELSE before

RECURSIVE SegmentedRows(_)
SegmentedRows(w) ==
    IF w = 0 THEN <<>>
    ELSE SegmentedRows(w - 1) \o BucketRows(w, Len(tl_items))

\* lines 254-256 (pdf), 376-383 (csv): for each window in turn the rows
\* whose start_time lies in [start, end) are put under its header; the csv
\* falls back to all_items when no row was placed
PlaceBuckets ==
    /\ tl_pc = "bucket"
    /\ tl_rows' = IF SegmentedRows(Len(tl_windows)) # <<>>
                  THEN SegmentedRows(Len(tl_windows))
                  ELSE [i \in 1..Len(tl_items) |-> [window |-> 0, item |-> i]]
    /\ tl_pc' = "written"
    /\ UNCHANGED <<tl_offsets, tl_items, tl_windows>>
    /\ UNCHANGED notWindowVars

NextWindows ==
    \/ AddPreamble
    \/ AddWindow
    \/ PlaceBuckets

SpecWindows == InitWindows /\ [][NextWindows]_vars

\* C38: in the transcript section every output row stands under exactly one
\* class-event window, never under two and never under none, whatever the
\* offsets of the timeline events (0 and negative ones included).
C38_OneWindowPerTurn ==
    tl_pc = "written" =>
        \A i \in 1..Len(tl_items) :
            Cardinality({r \in 1..Len(tl_rows) : tl_rows[r].item = i}) = 1

====
